---- MODULE Spec2Model ----
(***************************************************************************)
(* MiniGit (src/MiniGitSystem.hpp, front end src/unnamed/part_001).        *)
(*                                                                         *)
(* The state is the MiniGitSystem object of the running process (commits,  *)
(* branches, stagingArea, headBranch, headCommitHash) together with the    *)
(* files it reads and writes: the working root, .minigit/objects,          *)
(* .minigit/commits, .minigit/refs/heads and .minigit/HEAD.                *)
(*                                                                         *)
(* A std::string is a sequence of one-character strings, so that prefix    *)
(* tests, substr and concatenation are computed as the code computes them. *)
(***************************************************************************)
EXTENDS Integers, Sequences, FiniteSets

VARIABLES
    repo,            \* fs::exists(".minigit")
    wd,              \* regular files of the working root: name -> bytes
    objects,         \* .minigit/objects:    digest -> bytes
    commitDir,       \* .minigit/commits:    digest -> lines of the file
    refFiles,        \* .minigit/refs/heads: branch -> first line of the file
    headFile,        \* .minigit/HEAD: <<>> when absent, else <<first line>>
    commits,         \* MiniGitSystem::commits
    branches,        \* MiniGitSystem::branches
    stagingArea,     \* MiniGitSystem::stagingArea
    headBranch,      \* MiniGitSystem::headBranch
    headCommitHash,  \* MiniGitSystem::headCommitHash
    last,            \* the operation that ran last and how it ended
    trace,           \* how far the run has followed FirstCommitScenario
    interrupts,      \* how many operations a crash or a failed write has hit
    idle,            \* the last step changed neither a file nor the object
    logCall,         \* MiniGitSystem::log: its locals and where it is
    diffCall         \* MiniGitSystem::displayLineDiff: its locals and where it is

disk == <<repo, wd, objects, commitDir, refFiles, headFile>>
memory == <<commits, branches, stagingArea, headBranch, headCommitHash>>
calls == <<logCall, diffCall>>
vars == <<repo, wd, objects, commitDir, refFiles, headFile,
          commits, branches, stagingArea, headBranch, headCommitHash,
          last, trace, interrupts, idle, logCall, diffCall>>

(***************************************************************************)
(* Bounds of the model.                                                    *)
(***************************************************************************)
\* commits that the commit store may hold, interrupted ones counted in
MaxCommits == 2
\* the clock collaborator returns one of the seconds 0..MaxTime
MaxTime == 0
\* operations that may be interrupted between two of their file writes, or
\* have one of their file writes fail
MaxInterrupts == 1

(***************************************************************************)
(* Strings.                                                                *)
(***************************************************************************)
EmptyString == <<>>
master == <<"m", "a", "s", "t", "e", "r">>
feature == <<"f", "e", "a", "t", "u", "r", "e">>
fileTxt == <<"f">>
hiddenTxt == <<".", "h">>

RefPrefix == <<"r", "e", "f", ":", " ", "r", "e", "f", "s", "/",
               "h", "e", "a", "d", "s", "/">>
MessageTag == <<"m", "e", "s", "s", "a", "g", "e", ":">>
TimestampTag == <<"t", "i", "m", "e", "s", "t", "a", "m", "p", ":">>
ParentsTag == <<"p", "a", "r", "e", "n", "t", "s", ":">>
FilesTag == <<"f", "i", "l", "e", "s", ":">>

Paths == {fileTxt, hiddenTxt}
Contents == {<<"x">>, <<"y">>}
\* the bytes the user may write to file f
ContentsOf(f) == IF f = hiddenTxt THEN {<<"x">>} ELSE Contents
Messages == {<<"m">>}
BranchNames == {master, feature}

Digits == <<"0", "1", "2", "3", "4", "5", "6", "7", "8", "9">>
Alphabet == Digits \o <<"m", "x", "y", "f", "g", "h", ".", ":", " ", "k">>

\* s.rfind(p, 0) == 0
StartsWith(s, p) == Len(p) <= Len(s) /\ SubSeq(s, 1, Len(p)) = p

\* s.substr(n)
Substr(s, n) == SubSeq(s, n + 1, Len(s))

\* s.find(ch), 0 when there is none, else the 1-based position
RECURSIVE FindFrom(_, _, _)
FindFrom(s, ch, i) ==
    IF i > Len(s) THEN 0
    ELSE IF s[i] = ch THEN i ELSE FindFrom(s, ch, i + 1)

RECURSIVE to_string(_)
to_string(n) ==
    IF n < 10 THEN <<Digits[n + 1]>>
    ELSE to_string(n \div 10) \o <<Digits[(n % 10) + 1]>>

RECURSIVE Concat(_)
Concat(ss) == IF ss = <<>> THEN <<>> ELSE Head(ss) \o Concat(Tail(ss))

\* the sequences that enumerate the set S once each: the orders in which an
\* unordered_map with keys S may be iterated
Orders(S) ==
    {o \in [1..Cardinality(S) -> S] : \A i, j \in DOMAIN o : i # j => o[i] # o[j]}

\* m[k] = v on a map
Put(m, k, v) == [x \in (DOMAIN m) \cup {k} |-> IF x = k THEN v ELSE m[x]]
\* m.erase(k) for every k of ks
Erase(m, ks) == [x \in (DOMAIN m) \ ks |-> m[x]]
EmptyMap == <<>>

(***************************************************************************)
(* hashFileContent: std::hash<std::string> rendered by std::to_string.     *)
(***************************************************************************)
CharCode(ch) == CHOOSE i \in 1..Len(Alphabet) : Alphabet[i] = ch

RECURSIVE hasher(_)
hasher(s) ==
    IF s = <<>> THEN 7
    ELSE (hasher(SubSeq(s, 1, Len(s) - 1)) * 31 + CharCode(s[Len(s)])) % 67108859

hashFileContent(content) == to_string(hasher(content))

(***************************************************************************)
(* Commit records and their file representation.                           *)
(***************************************************************************)
Commit(h, m, t, ps, fb) ==
    [hash |-> h, message |-> m, timestamp |-> t, parentHashes |-> ps,
     fileBlobs |-> fb]

\* a default-constructed Commit with the given hash
BlankCommit(h) == Commit(h, EmptyString, EmptyString, <<>>, EmptyMap)

\* the lines writeCommitToFile writes; the tree is written in the order
\* `order` in which the unordered_map is iterated
RECURSIVE ParentsText(_)
ParentsText(ps) ==
    IF ps = <<>> THEN <<>> ELSE Head(ps) \o <<" ">> \o ParentsText(Tail(ps))

writeCommitToFile(c, order) ==
    <<MessageTag \o c.message,
      TimestampTag \o c.timestamp,
      ParentsTag \o ParentsText(c.parentHashes),
      FilesTag>>
    \o [i \in 1..Len(order) |-> order[i] \o <<":">> \o c.fileBlobs[order[i]]]

\* `ss >> word` until the stream ends: the whitespace-separated words of s
RECURSIVE Words(_, _)
Words(s, cur) ==
    IF s = <<>> THEN (IF cur = <<>> THEN <<>> ELSE <<cur>>)
    ELSE IF Head(s) = " "
         THEN (IF cur = <<>> THEN <<>> ELSE <<cur>>) \o Words(Tail(s), <<>>)
         ELSE Words(Tail(s), Append(cur, Head(s)))

\* the inner loop of the files: section, from line i: the tree read and the
\* index of the line that ended the loop (an empty line, or past the end)
RECURSIVE ReadFiles(_, _, _)
ReadFiles(lines, i, fb) ==
    IF i > Len(lines) \/ lines[i] = <<>> THEN [fileBlobs |-> fb, next |-> i + 1]
    ELSE LET colonPos == FindFrom(lines[i], ":", 1)
         IN  IF colonPos # 0
             THEN ReadFiles(lines, i + 1,
                            Put(fb, SubSeq(lines[i], 1, colonPos - 1),
                                Substr(lines[i], colonPos)))
             ELSE ReadFiles(lines, i + 1, fb)

RECURSIVE ReadLines(_, _, _)
ReadLines(lines, i, c) ==
    IF i > Len(lines) THEN c
    ELSE LET line == lines[i]
         IN  IF StartsWith(line, MessageTag)
             THEN ReadLines(lines, i + 1, [c EXCEPT !.message = Substr(line, 8)])
             ELSE IF StartsWith(line, TimestampTag)
             THEN ReadLines(lines, i + 1, [c EXCEPT !.timestamp = Substr(line, 10)])
             ELSE IF StartsWith(line, ParentsTag)
             THEN ReadLines(lines, i + 1,
                            [c EXCEPT !.parentHashes =
                                 c.parentHashes \o Words(Substr(line, 8), <<>>)])
             ELSE IF StartsWith(line, FilesTag)
             THEN LET r == ReadFiles(lines, i + 1, c.fileBlobs)
                  IN  ReadLines(lines, r.next, [c EXCEPT !.fileBlobs = r.fileBlobs])
             ELSE ReadLines(lines, i + 1, c)

\* loadCommitFromFile against the commit files `files`
loadCommitFromFile(files, commitHash) ==
    IF commitHash \notin DOMAIN files THEN BlankCommit(EmptyString)
    ELSE ReadLines(files[commitHash], 1, BlankCommit(commitHash))

(***************************************************************************)
(* The ref store.                                                          *)
(***************************************************************************)
\* as SavedRefs, but the digest is written to every ref file there is
SavedRefs_EveryRef(hb, hc, refs) ==
    IF hb # EmptyString /\ hc # EmptyString
    THEN [b \in (DOMAIN refs) \cup {hb} |-> hc]
    ELSE refs

\* what saveHeadAndBranchRefs leaves in .minigit/refs/heads
SavedRefs(hb, hc, refs) ==
    IF hb # EmptyString /\ hc # EmptyString THEN Put(refs, hb, hc) ELSE refs

\* what saveHeadAndBranchRefs leaves in .minigit/HEAD
SavedHead(hb, hc) ==
    <<IF hb # EmptyString THEN RefPrefix \o hb ELSE hc>>

\* the object a new process constructs: the defaults when there is no
\* .minigit, else what loadRepoState reads
Constructed(exists, head, refs, dir) ==
    LET line == head[1]
        attached == head # <<>> /\ StartsWith(line, RefPrefix)
        hb == IF ~exists \/ head = <<>> THEN master
              ELSE IF attached THEN Substr(line, 16) ELSE EmptyString
        hc == IF ~exists \/ head = <<>> THEN EmptyString
              ELSE IF attached
                   THEN (IF hb \in DOMAIN refs THEN refs[hb] ELSE EmptyString)
                   ELSE line
    IN  [commits |-> IF exists
                     THEN [h \in DOMAIN dir |-> loadCommitFromFile(dir, h)]
                     ELSE EmptyMap,
         branches |-> IF exists THEN [b \in DOMAIN refs |-> refs[b]] ELSE EmptyMap,
         headBranch |-> hb,
         headCommitHash |-> hc]

(***************************************************************************)
(* The status classifier.                                                  *)
(***************************************************************************)
\* const Commit* nullptr
NullCommit == [null |-> TRUE]

\* the cache after `if (commits.find(headCommitHash) == commits.end())
\*     commits[headCommitHash] = loadCommitFromFile(headCommitHash)`
HeadCached ==
    IF headCommitHash # EmptyString /\ headCommitHash \notin DOMAIN commits
    THEN Put(commits, headCommitHash, loadCommitFromFile(commitDir, headCommitHash))
    ELSE commits

\* currentHeadCommit of commit and checkout
CurrentHeadCommit ==
    IF headCommitHash # EmptyString THEN HeadCached[headCommitHash] ELSE NullCommit

TreeOf(headCommit) ==
    IF headCommit = NullCommit THEN EmptyMap ELSE headCommit.fileBlobs

\* the non-hidden regular files of the working root
WdFiles == {f \in DOMAIN wd : f[1] # "."}

NotStagedNote ==
    <<" ", "(", "n", "o", "t", " ", "s", "t", "a", "g", "e", "d",
      " ", "-", " ", "s", "t", "a", "g", "e", "d", " ", "v", "e",
      "r", "s", "i", "o", "n", " ", "d", "i", "f", "f", "e", "r",
      "s", " ", "f", "r", "o", "m", " ", "W", "D", ")">>

\* as getStagedChanges, but every staged entry of a tracked file counts as
\* modified, whatever its digest
getStagedChanges_NoDigestTest(headCommit) ==
    LET tree == TreeOf(headCommit)
    IN  [added |-> {f \in DOMAIN stagingArea : f \notin DOMAIN tree},
         modified |-> {f \in DOMAIN stagingArea : f \in DOMAIN tree},
         deleted |-> {f \in DOMAIN tree :
                         f \notin DOMAIN stagingArea /\ f \notin DOMAIN wd}]

\* as getStagedChanges, but a file of HEAD's tree that is not staged counts
\* as deleted whether or not it is in the working directory
getStagedChanges_DeletedThoughThere(headCommit) ==
    LET tree == TreeOf(headCommit)
    IN  [added |-> {f \in DOMAIN stagingArea : f \notin DOMAIN tree},
         modified |-> {f \in DOMAIN stagingArea :
                          f \in DOMAIN tree /\ tree[f] # stagingArea[f]},
         deleted |-> {f \in DOMAIN tree : f \notin DOMAIN stagingArea}]

getStagedChanges(headCommit) ==
    LET tree == TreeOf(headCommit)
    IN  [added |-> {f \in DOMAIN stagingArea : f \notin DOMAIN tree},
         modified |-> {f \in DOMAIN stagingArea :
                          f \in DOMAIN tree /\ tree[f] # stagingArea[f]},
         deleted |-> {f \in DOMAIN tree :
                         f \notin DOMAIN stagingArea /\ f \notin DOMAIN wd}]

\* as getUnstagedChanges, but no path is reported as deleted
getUnstagedChanges_NoDeleted(headCommit) ==
    LET tree == TreeOf(headCommit)
        currentHash(f) == hashFileContent(wd[f])
    IN  [modified |->
             {f \o NotStagedNote : f \in
                 {g \in WdFiles : g \in DOMAIN stagingArea
                                  /\ stagingArea[g] # currentHash(g)}}
             \cup {f \in WdFiles : f \notin DOMAIN stagingArea
                                   /\ f \in DOMAIN tree
                                   /\ tree[f] # currentHash(f)},
         deleted |-> {},
         untracked |-> {f \in WdFiles : f \notin DOMAIN stagingArea
                                        /\ f \notin DOMAIN tree}]

getUnstagedChanges(headCommit) ==
    LET tree == TreeOf(headCommit)
        currentHash(f) == hashFileContent(wd[f])
    IN  [modified |->
             {f \o NotStagedNote : f \in
                 {g \in WdFiles : g \in DOMAIN stagingArea
                                  /\ stagingArea[g] # currentHash(g)}}
             \cup {f \in WdFiles : f \notin DOMAIN stagingArea
                                   /\ f \in DOMAIN tree
                                   /\ tree[f] # currentHash(f)},
         deleted |-> {f \in DOMAIN tree :
                         f \notin WdFiles /\ f \notin DOMAIN stagingArea},
         untracked |-> {f \in WdFiles : f \notin DOMAIN stagingArea
                                        /\ f \notin DOMAIN tree}]

NoStaged(s) == s.added = {} /\ s.modified = {} /\ s.deleted = {}
NoUnstaged(u) == u.modified = {} /\ u.deleted = {} /\ u.untracked = {}

(***************************************************************************)
(* Bookkeeping: which operation ran last, and the scenario being followed. *)
(***************************************************************************)
Ended(op, result, hash) == [op |-> op, result |-> result, created |-> hash]

Event(op, arg) == [op |-> op, arg |-> arg]

\* The front end (main) constructs the object, runs one operation and exits.
\* The first-commit scenario: init, add file and commit, each in a process
\* of its own, from a directory with no repository.
FirstCommitScenario ==
    <<Event("init", EmptyString), Event("exit", EmptyString),
      Event("add", fileTxt), Event("exit", EmptyString),
      Event("commit", <<"m">>)>>

OffScenario == <<Event("off", EmptyString)>>

\* trace with one more event while the run follows the scenario
Logged(op, arg) ==
    LET next == Append(trace, Event(op, arg))
    IN  IF trace # OffScenario /\ Len(next) <= Len(FirstCommitScenario)
           /\ next = SubSeq(FirstCommitScenario, 1, Len(next))
        THEN next ELSE OffScenario

\* A step that changed neither a file nor the object, and is no step of the
\* scenario being followed (a refused or failed operation, a status), leaves
\* the system where it was attempted: the runs that go on from there are the
\* runs that go on from the state before it, and are explored from that state
\* only.
Settled == idle' = (disk' = disk /\ memory' = memory /\ trace' = trace)

(***************************************************************************)
(* Init: a directory with no .minigit and no files, and the object the     *)
(* constructor leaves there.                                               *)
(***************************************************************************)
\* no call of log, no call of displayLineDiff
NoLog ==
    [pc |-> "rest", current |-> EmptyString, visitedCommits |-> {},
     printed |-> <<>>]
NoDiff ==
    [pc |-> "rest", oldLines |-> <<>>, newLines |-> <<>>,
     oldIdx |-> 0, newIdx |-> 0, output |-> <<>>, iterations |-> 0]

Init ==
    /\ repo = FALSE
    /\ wd = EmptyMap
    /\ objects = EmptyMap
    /\ commitDir = EmptyMap
    /\ refFiles = EmptyMap
    /\ headFile = <<>>
    /\ commits = EmptyMap
    /\ branches = EmptyMap
    /\ stagingArea = EmptyMap
    /\ headBranch = master
    /\ headCommitHash = EmptyString
    /\ last = Ended("construct", "ok", EmptyString)
    /\ trace = <<>>
    /\ interrupts = 0
    /\ idle = FALSE
    /\ logCall = NoLog
    /\ diffCall = NoDiff

(***************************************************************************)
(* The user edits the working root between operations.                     *)
(***************************************************************************)
WriteFile(f, content) ==
    /\ ~idle
    /\ UNCHANGED calls
    /\ ~(f \in DOMAIN wd /\ wd[f] = content)
    /\ wd' = Put(wd, f, content)
    /\ last' = Ended("edit", "ok", EmptyString)
    /\ UNCHANGED <<repo, objects, commitDir, refFiles, headFile, memory,
                   trace, interrupts>>
    /\ Settled

RemoveFile(f) ==
    /\ ~idle
    /\ UNCHANGED calls
    /\ f \in DOMAIN wd
    /\ wd' = Erase(wd, {f})
    /\ last' = Ended("edit", "ok", EmptyString)
    /\ UNCHANGED <<repo, objects, commitDir, refFiles, headFile, memory,
                   trace, interrupts>>
    /\ Settled

(***************************************************************************)
(* The process exits and the next front-end invocation constructs a new    *)
(* object: MiniGitSystem() and loadRepoState.                              *)
(***************************************************************************)
\* as Construct, but the staging area is kept, as if it were read back from
\* an index file
Construct_KeepsIndex ==
    LET m == Constructed(repo, headFile, refFiles, commitDir)
    IN  /\ ~idle
        /\ UNCHANGED calls
        /\ commits' = m.commits
        /\ branches' = m.branches
        /\ UNCHANGED stagingArea
        /\ headBranch' = m.headBranch
        /\ headCommitHash' = m.headCommitHash
        /\ last' = Ended("construct", "ok", EmptyString)
        /\ trace' = IF trace # <<>> /\ trace[Len(trace)].op = "exit" THEN trace
                     ELSE Logged("exit", EmptyString)
        /\ UNCHANGED <<disk, interrupts>>
        /\ Settled

Construct ==
    LET m == Constructed(repo, headFile, refFiles, commitDir)
    IN  /\ ~idle
        /\ UNCHANGED calls
        /\ commits' = m.commits
        /\ branches' = m.branches
        /\ stagingArea' = EmptyMap
        /\ headBranch' = m.headBranch
        /\ headCommitHash' = m.headCommitHash
        /\ last' = Ended("construct", "ok", EmptyString)
        /\ trace' = IF trace # <<>> /\ trace[Len(trace)].op = "exit" THEN trace
                     ELSE Logged("exit", EmptyString)
        /\ UNCHANGED <<disk, interrupts>>
        /\ Settled

(***************************************************************************)
(* init                                                                    *)
(***************************************************************************)
init ==
    /\ ~idle
    /\ UNCHANGED calls
    /\ trace' = Logged("init", EmptyString)
    /\ UNCHANGED interrupts
    /\ IF repo
       THEN /\ last' = Ended("init", "AlreadyInitialized", EmptyString)
            /\ UNCHANGED <<disk, memory>>
       ELSE /\ repo' = TRUE
            /\ headBranch' = master
            /\ headCommitHash' = EmptyString
            /\ branches' = Put(branches, master, EmptyString)
            /\ refFiles' = SavedRefs(master, EmptyString, refFiles)
            /\ headFile' = SavedHead(master, EmptyString)
            /\ last' = Ended("init", "ok", EmptyString)
            /\ UNCHANGED <<wd, objects, commitDir, commits, stagingArea>>
    /\ Settled

(***************************************************************************)
(* add                                                                     *)
(***************************************************************************)
\* as add, but a path already staged with the digest of its content is taken
\* out of the staging area
add_Unstaging(filename) ==
    /\ ~idle
    /\ UNCHANGED calls
    /\ trace' = Logged("add", filename)
    /\ UNCHANGED interrupts
    /\ IF ~repo
       THEN /\ last' = Ended("add", "NotARepository", EmptyString)
            /\ UNCHANGED <<disk, memory>>
       ELSE IF filename \notin DOMAIN wd
       THEN /\ last' = Ended("add", "NoSuchPath", EmptyString)
            /\ UNCHANGED <<disk, memory>>
       ELSE LET content == wd[filename]
                hash == hashFileContent(content)
            IN  IF filename \in DOMAIN stagingArea /\ stagingArea[filename] = hash
                THEN /\ stagingArea' = Erase(stagingArea, {filename})
                     /\ last' = Ended("add", "AlreadyStaged", EmptyString)
                     /\ UNCHANGED <<disk, commits, branches, headBranch,
                                    headCommitHash>>
                ELSE /\ stagingArea' = Put(stagingArea, filename, hash)
                     /\ objects' = Put(objects, hash, content)
                     /\ last' = Ended("add", "ok", EmptyString)
                     /\ UNCHANGED <<repo, wd, commitDir, refFiles, headFile,
                                    commits, branches, headBranch, headCommitHash>>
    /\ Settled

add(filename) ==
    /\ ~idle
    /\ UNCHANGED calls
    /\ trace' = Logged("add", filename)
    /\ UNCHANGED interrupts
    /\ IF ~repo
       THEN /\ last' = Ended("add", "NotARepository", EmptyString)
            /\ UNCHANGED <<disk, memory>>
       ELSE IF filename \notin DOMAIN wd
       THEN /\ last' = Ended("add", "NoSuchPath", EmptyString)
            /\ UNCHANGED <<disk, memory>>
       ELSE LET content == wd[filename]
                hash == hashFileContent(content)
            IN  IF filename \in DOMAIN stagingArea /\ stagingArea[filename] = hash
                THEN /\ last' = Ended("add", "AlreadyStaged", EmptyString)
                     /\ UNCHANGED <<disk, memory>>
                ELSE /\ stagingArea' = Put(stagingArea, filename, hash)
                     /\ objects' = Put(objects, hash, content)
                     /\ last' = Ended("add", "ok", EmptyString)
                     /\ UNCHANGED <<repo, wd, commitDir, refFiles, headFile,
                                    commits, branches, headBranch, headCommitHash>>
    /\ Settled

(***************************************************************************)
(* commit                                                                  *)
(***************************************************************************)
\* getCurrentTime at second t of the clock
getCurrentTime(t) ==
    <<"0", "0", ":">> \o (IF t < 10 THEN <<"0">> ELSE <<>>) \o to_string(t)

\* as NewParents, but the parent is never linked
NewParents_Unlinked == <<>>

\* newCommit.parentHashes
NewParents ==
    IF headCommitHash # EmptyString THEN <<headCommitHash>> ELSE <<>>

\* as NewTree, but the snapshot starts empty instead of from the parent's
NewTree_NoParentSnapshot(staged) ==
    Erase(stagingArea, staged.deleted)

\* as NewTree, but the staged-deleted names stay in the snapshot
NewTree_KeepsDeleted(staged) ==
    LET base == IF headCommitHash # EmptyString
                THEN CurrentHeadCommit.fileBlobs ELSE EmptyMap
    IN  [f \in (DOMAIN base) \cup (DOMAIN stagingArea) |->
            IF f \in DOMAIN stagingArea THEN stagingArea[f] ELSE base[f]]

\* newCommit.fileBlobs: the parent's snapshot, the staged entries applied,
\* the staged-deleted names erased
NewTree(staged) ==
    LET base == IF headCommitHash # EmptyString
                THEN CurrentHeadCommit.fileBlobs ELSE EmptyMap
        applied == [f \in (DOMAIN base) \cup (DOMAIN stagingArea) |->
                       IF f \in DOMAIN stagingArea THEN stagingArea[f] ELSE base[f]]
    IN  Erase(applied, staged.deleted)

\* newCommit.hash, the tree iterated in the order `order`
CommitHash(message, timestamp, parents, tree, order) ==
    hashFileContent(message \o timestamp \o Concat(parents)
                    \o Concat([i \in 1..Len(order) |-> order[i] \o tree[order[i]]]))

\* The commit that `commit(message)` builds at second t, iterating its tree
\* in the order `order`.
NewCommit(message, t, order) ==
    LET tree == NewTree(getStagedChanges(CurrentHeadCommit))
    IN  Commit(CommitHash(message, getCurrentTime(t), NewParents, tree, order),
               message, getCurrentTime(t), NewParents, tree)

\* as CommitWrites, but the commit record is never written
CommitWrites_NoRecord(c, order, done) ==
    [refFiles |-> IF done >= 1 THEN SavedRefs(headBranch, c.hash, refFiles)
                  ELSE refFiles,
     headFile |-> IF done >= 2 THEN SavedHead(headBranch, c.hash) ELSE headFile,
     commitDir |-> commitDir]

\* as CommitWrites, but the ref file of master is advanced whatever HEAD is
\* attached to
CommitWrites_AdvancesMaster(c, order, done) ==
    [refFiles |-> IF done >= 1 THEN Put(refFiles, master, c.hash) ELSE refFiles,
     headFile |-> IF done >= 2 THEN SavedHead(headBranch, c.hash) ELSE headFile,
     commitDir |-> IF done >= 3 THEN Put(commitDir, c.hash, writeCommitToFile(c, order))
                   ELSE commitDir]

\* The files of .minigit after the first `done` of the three file writes of
\* commit, in the order the code makes them: the branch ref file and HEAD
\* (saveHeadAndBranchRefs), then the commit record (writeCommitToFile).
CommitWrites(c, order, done) ==
    [refFiles |-> IF done >= 1 THEN SavedRefs(headBranch, c.hash, refFiles)
                  ELSE refFiles,
     headFile |-> IF done >= 2 THEN SavedHead(headBranch, c.hash) ELSE headFile,
     commitDir |-> IF done >= 3 THEN Put(commitDir, c.hash, writeCommitToFile(c, order))
                   ELSE commitDir]

commit(message) ==
    /\ ~idle
    /\ UNCHANGED calls
    /\ trace' = Logged("commit", message)
    /\ UNCHANGED interrupts
    /\ IF ~repo
       THEN /\ last' = Ended("commit", "NotARepository", EmptyString)
            /\ UNCHANGED <<disk, memory>>
       ELSE IF NoStaged(getStagedChanges(CurrentHeadCommit))
       THEN /\ commits' = HeadCached
            /\ stagingArea' = EmptyMap
            /\ last' = Ended("commit", "NoEffectiveChanges", EmptyString)
            /\ UNCHANGED <<disk, branches, headBranch, headCommitHash>>
       ELSE \E t \in 0..MaxTime :
            \E order \in Orders(DOMAIN NewTree(getStagedChanges(CurrentHeadCommit))) :
               LET c == NewCommit(message, t, order)
                   w == CommitWrites(c, order, 3)
               IN  /\ Cardinality(DOMAIN commitDir \cup {c.hash}) + interrupts
                          <= MaxCommits
                   /\ commits' = Put(HeadCached, c.hash, c)
                   /\ headCommitHash' = c.hash
                   /\ branches' = IF headBranch # EmptyString
                                  THEN Put(branches, headBranch, c.hash)
                                  ELSE branches
                   /\ refFiles' = w.refFiles
                   /\ headFile' = w.headFile
                   /\ commitDir' = w.commitDir
                   /\ stagingArea' = EmptyMap
                   /\ last' = Ended("commit", "ok", c.hash)
                   /\ UNCHANGED <<repo, wd, objects, headBranch>>
    /\ Settled

\* commit cut short by a crash after `done` of its file writes (1 or 2); the
\* process is gone, and the next front-end invocation constructs a new object
\* from the files that were written.
commitInterrupted(message, done) ==
    /\ ~idle
    /\ UNCHANGED calls
    /\ repo
    /\ interrupts < MaxInterrupts
    /\ Cardinality(DOMAIN commitDir) + interrupts < MaxCommits
    /\ ~NoStaged(getStagedChanges(CurrentHeadCommit))
    /\ \E t \in 0..MaxTime :
       \E order \in Orders(DOMAIN NewTree(getStagedChanges(CurrentHeadCommit))) :
          LET c == NewCommit(message, t, order)
              w == CommitWrites(c, order, done)
              m == Constructed(repo, w.headFile, w.refFiles, w.commitDir)
          IN  /\ refFiles' = w.refFiles
              /\ headFile' = w.headFile
              /\ commitDir' = w.commitDir
              /\ commits' = m.commits
              /\ branches' = m.branches
              /\ stagingArea' = EmptyMap
              /\ headBranch' = m.headBranch
              /\ headCommitHash' = m.headCommitHash
              /\ last' = Ended("commit", "interrupted", c.hash)
              /\ interrupts' = interrupts + 1
              /\ trace' = Logged("commit", message)
              /\ UNCHANGED <<repo, wd, objects>>
    /\ Settled

(***************************************************************************)
(* branch                                                                  *)
(***************************************************************************)
\* as branch, but a name that is a branch already is pointed to HEAD's commit
branch_Overwrites(name) ==
    /\ ~idle
    /\ UNCHANGED calls
    /\ trace' = Logged("branch", name)
    /\ UNCHANGED interrupts
    /\ IF ~repo
       THEN /\ last' = Ended("branch", "NotARepository", EmptyString)
            /\ UNCHANGED <<disk, memory>>
       ELSE IF headCommitHash = EmptyString
       THEN /\ last' = Ended("branch", "NoCommits", EmptyString)
            /\ UNCHANGED <<disk, memory>>
       ELSE /\ branches' = Put(branches, name, headCommitHash)
            /\ refFiles' = SavedRefs(headBranch, headCommitHash, refFiles)
            /\ headFile' = SavedHead(headBranch, headCommitHash)
            /\ last' = Ended("branch", "ok", EmptyString)
            /\ UNCHANGED <<repo, wd, objects, commitDir, commits, stagingArea,
                           headBranch, headCommitHash>>
    /\ Settled

\* as branch, but a branch is created also when HEAD has no commit
branch_WithoutCommit(name) ==
    /\ ~idle
    /\ UNCHANGED calls
    /\ trace' = Logged("branch", name)
    /\ UNCHANGED interrupts
    /\ IF ~repo
       THEN /\ last' = Ended("branch", "NotARepository", EmptyString)
            /\ UNCHANGED <<disk, memory>>
       ELSE IF name \in DOMAIN branches
       THEN /\ last' = Ended("branch", "BranchExists", EmptyString)
            /\ UNCHANGED <<disk, memory>>
       ELSE /\ branches' = Put(branches, name, headCommitHash)
            /\ refFiles' = SavedRefs(headBranch, headCommitHash, refFiles)
            /\ headFile' = SavedHead(headBranch, headCommitHash)
            /\ last' = Ended("branch", "ok", EmptyString)
            /\ UNCHANGED <<repo, wd, objects, commitDir, commits, stagingArea,
                           headBranch, headCommitHash>>
    /\ Settled

branch(name) ==
    /\ ~idle
    /\ UNCHANGED calls
    /\ trace' = Logged("branch", name)
    /\ UNCHANGED interrupts
    /\ IF ~repo
       THEN /\ last' = Ended("branch", "NotARepository", EmptyString)
            /\ UNCHANGED <<disk, memory>>
       ELSE IF headCommitHash = EmptyString
       THEN /\ last' = Ended("branch", "NoCommits", EmptyString)
            /\ UNCHANGED <<disk, memory>>
       ELSE IF name \in DOMAIN branches
       THEN /\ last' = Ended("branch", "BranchExists", EmptyString)
            /\ UNCHANGED <<disk, memory>>
       ELSE /\ branches' = Put(branches, name, headCommitHash)
            /\ refFiles' = SavedRefs(headBranch, headCommitHash, refFiles)
            /\ headFile' = SavedHead(headBranch, headCommitHash)
            /\ last' = Ended("branch", "ok", EmptyString)
            /\ UNCHANGED <<repo, wd, objects, commitDir, commits, stagingArea,
                           headBranch, headCommitHash>>
    /\ Settled

(***************************************************************************)
(* checkout                                                                *)
(***************************************************************************)
\* as populateWorkingDirectory, but the files that are not in the target
\* commit are left in place
populateWorkingDirectory_NoRemoval(c) ==
    LET tree == c.fileBlobs
        written == {f \in DOMAIN tree : tree[f] \in DOMAIN objects}
    IN  [f \in (DOMAIN wd) \cup written |->
            IF f \in written THEN objects[tree[f]] ELSE wd[f]]

\* as populateWorkingDirectory, but a tree entry whose blob file is missing
\* ends it before any file is written or removed
populateWorkingDirectory_StopsAtMissingBlob(c) ==
    LET tree == c.fileBlobs
        written == DOMAIN tree
        updated == [f \in (DOMAIN wd) \cup written |->
                       IF f \in written THEN objects[tree[f]] ELSE wd[f]]
        removed == {f \in WdFiles \ written : f[1] # "." /\ f \notin DOMAIN tree}
    IN  IF \E f \in DOMAIN tree : tree[f] \notin DOMAIN objects
        THEN wd
        ELSE Erase(updated, removed)

\* as populateWorkingDirectory, but the hidden files of the working root
\* that are not in the target commit are removed too
populateWorkingDirectory_RemovesHidden(c) ==
    LET tree == c.fileBlobs
        written == {f \in DOMAIN tree : tree[f] \in DOMAIN objects}
        updated == [f \in (DOMAIN wd) \cup written |->
                       IF f \in written THEN objects[tree[f]] ELSE wd[f]]
        removed == {f \in (DOMAIN wd) \ written : f \notin DOMAIN tree}
    IN  Erase(updated, removed)

\* the working root after populateWorkingDirectory(c)
populateWorkingDirectory(c) ==
    LET tree == c.fileBlobs
        wdFiles == WdFiles
        \* a tree entry whose blob file is missing is skipped with a warning
        written == {f \in DOMAIN tree : tree[f] \in DOMAIN objects}
        updated == [f \in (DOMAIN wd) \cup written |->
                       IF f \in written THEN objects[tree[f]] ELSE wd[f]]
        removed == {f \in wdFiles \ written : f[1] # "." /\ f \notin DOMAIN tree}
    IN  Erase(updated, removed)

\* as Resolutions, but a target that is a commit digest is taken as the
\* digest before it is looked up among the branches
Resolutions_DigestFirst(target, cache) ==
    IF target \in DOMAIN cache
    THEN {[newHeadBranch |-> EmptyString, targetCommitHash |-> target]}
    ELSE IF target \in DOMAIN branches
    THEN {[newHeadBranch |-> target, targetCommitHash |-> branches[target]]}
    ELSE LET matches == {h \in DOMAIN cache :
                            StartsWith(h, target) /\ Len(target) >= 4}
         IN  IF matches = {}
             THEN {[newHeadBranch |-> EmptyString, targetCommitHash |-> EmptyString]}
             ELSE {[newHeadBranch |-> EmptyString, targetCommitHash |-> h] : h \in matches}

\* (newHeadBranch, targetCommitHash) as checkout resolves `target`; a prefix
\* resolves to the first match met while iterating the unordered_map commits
Resolutions(target, cache) ==
    IF target \in DOMAIN branches
    THEN {[newHeadBranch |-> target, targetCommitHash |-> branches[target]]}
    ELSE IF target \in DOMAIN cache
    THEN {[newHeadBranch |-> EmptyString, targetCommitHash |-> target]}
    ELSE LET matches == {h \in DOMAIN cache :
                            StartsWith(h, target) /\ Len(target) >= 4}
         IN  IF matches = {}
             THEN {[newHeadBranch |-> EmptyString, targetCommitHash |-> EmptyString]}
             ELSE {[newHeadBranch |-> EmptyString, targetCommitHash |-> h] : h \in matches}

\* as Dirty, but untracked files do not count
Dirty_IgnoresUntracked ==
    \/ ~NoStaged(getStagedChanges(CurrentHeadCommit))
    \/ getUnstagedChanges(CurrentHeadCommit).modified # {}
    \/ getUnstagedChanges(CurrentHeadCommit).deleted # {}

\* the guard of checkout: staged or unstaged changes, or untracked files
Dirty ==
    \/ ~NoStaged(getStagedChanges(CurrentHeadCommit))
    \/ ~NoUnstaged(getUnstagedChanges(CurrentHeadCommit))

\* as checkoutRefused, but the staging area is cleared before returning
checkoutRefused_ClearsStaging ==
    /\ commits' = HeadCached
    /\ stagingArea' = EmptyMap
    /\ last' = Ended("checkout", "WorkingDirDirty", EmptyString)
    /\ UNCHANGED <<disk, branches, headBranch, headCommitHash>>

\* the uncommitted-changes branch of checkout: the error, status(), return
checkoutRefused ==
    /\ commits' = HeadCached
    /\ last' = Ended("checkout", "WorkingDirDirty", EmptyString)
    /\ UNCHANGED <<disk, branches, stagingArea, headBranch, headCommitHash>>

checkout(target) ==
    /\ ~idle
    /\ UNCHANGED calls
    /\ trace' = Logged("checkout", target)
    /\ UNCHANGED interrupts
    /\ IF ~repo
       THEN /\ last' = Ended("checkout", "NotARepository", EmptyString)
            /\ UNCHANGED <<disk, memory>>
       ELSE IF Dirty
       THEN checkoutRefused
       ELSE \E r \in Resolutions(target, HeadCached) :
            LET newHeadBranch == r.newHeadBranch
                targetCommitHash == r.targetCommitHash
                loaded == loadCommitFromFile(commitDir, targetCommitHash)
                cache == IF targetCommitHash \notin DOMAIN HeadCached
                         THEN Put(HeadCached, targetCommitHash, loaded)
                         ELSE HeadCached
            IN  IF targetCommitHash = EmptyString /\ newHeadBranch # EmptyString
                THEN IF headBranch = newHeadBranch
                     THEN /\ commits' = HeadCached
                          /\ last' = Ended("checkout", "AlreadyOn", EmptyString)
                          /\ UNCHANGED <<disk, branches, stagingArea, headBranch,
                                         headCommitHash>>
                     ELSE /\ wd' = Erase(wd, WdFiles)
                          /\ headBranch' = newHeadBranch
                          /\ headCommitHash' = targetCommitHash
                          /\ refFiles' = SavedRefs(newHeadBranch, targetCommitHash,
                                                   refFiles)
                          /\ headFile' = SavedHead(newHeadBranch, targetCommitHash)
                          /\ stagingArea' = EmptyMap
                          /\ commits' = HeadCached
                          /\ last' = Ended("checkout", "ok", EmptyString)
                          /\ UNCHANGED <<repo, objects, commitDir, branches>>
                ELSE IF targetCommitHash = EmptyString
                THEN /\ commits' = HeadCached
                     /\ last' = Ended("checkout", "UnknownTarget", EmptyString)
                     /\ UNCHANGED <<disk, branches, stagingArea, headBranch,
                                    headCommitHash>>
                ELSE IF targetCommitHash \notin DOMAIN HeadCached
                        /\ loaded.hash = EmptyString
                THEN /\ commits' = cache
                     /\ last' = Ended("checkout", "CorruptCommit", EmptyString)
                     /\ UNCHANGED <<disk, branches, stagingArea, headBranch,
                                    headCommitHash>>
                ELSE IF headCommitHash = targetCommitHash
                        /\ newHeadBranch = headBranch
                THEN /\ commits' = cache
                     /\ last' = Ended("checkout", "AlreadyOn", EmptyString)
                     /\ UNCHANGED <<disk, branches, stagingArea, headBranch,
                                    headCommitHash>>
                ELSE /\ headBranch' = newHeadBranch
                     /\ headCommitHash' = targetCommitHash
                     /\ refFiles' = SavedRefs(newHeadBranch, targetCommitHash, refFiles)
                     /\ headFile' = SavedHead(newHeadBranch, targetCommitHash)
                     /\ wd' = populateWorkingDirectory(cache[targetCommitHash])
                     /\ stagingArea' = EmptyMap
                     /\ commits' = cache
                     /\ last' = Ended("checkout", "ok", EmptyString)
                     /\ UNCHANGED <<repo, objects, commitDir, branches>>
    /\ Settled

(***************************************************************************)
(* status                                                                  *)
(***************************************************************************)
\* as status, but the staging area is cleared, as commit clears it when it
\* finds nothing to commit
status_ClearsStaging ==
    /\ ~idle
    /\ UNCHANGED calls
    /\ trace' = Logged("status", EmptyString)
    /\ UNCHANGED interrupts
    /\ IF ~repo
       THEN /\ last' = Ended("status", "NotARepository", EmptyString)
            /\ UNCHANGED <<disk, memory>>
       ELSE /\ commits' = HeadCached
            /\ stagingArea' = EmptyMap
            /\ last' = Ended("status", "ok", EmptyString)
            /\ UNCHANGED <<disk, branches, headBranch, headCommitHash>>
    /\ Settled

status ==
    /\ ~idle
    /\ UNCHANGED calls
    /\ trace' = Logged("status", EmptyString)
    /\ UNCHANGED interrupts
    /\ IF ~repo
       THEN /\ last' = Ended("status", "NotARepository", EmptyString)
            /\ UNCHANGED <<disk, memory>>
       ELSE /\ commits' = HeadCached
            /\ last' = Ended("status", "ok", EmptyString)
            /\ UNCHANGED <<disk, branches, stagingArea, headBranch, headCommitHash>>
    /\ Settled

(***************************************************************************)
(* The specification.                                                      *)
(***************************************************************************)
\* what the user may name as a checkout target: a branch name, a commit
\* digest, or the first four or the first three characters of one
Targets ==
    BranchNames \cup (DOMAIN branches) \cup (DOMAIN commits)
    \cup ({headCommitHash} \ {EmptyString})
    \cup {SubSeq(h, 1, 4) : h \in {d \in DOMAIN commits : Len(d) >= 4}}
    \cup {SubSeq(h, 1, 3) : h \in {d \in DOMAIN commits : Len(d) >= 4}}

Next ==
    \/ \E f \in Paths : \E content \in ContentsOf(f) : WriteFile(f, content)
    \/ \E f \in Paths : RemoveFile(f)
    \/ Construct
    \/ init
    \/ \E f \in Paths : add(f)
    \/ \E message \in Messages : commit(message)
    \/ \E name \in BranchNames : branch(name)
    \/ \E target \in Targets : checkout(target)
    \/ status

\* the operations, the files named being the one visible path
VisiblePaths == {fileTxt}

NextVisible ==
    \/ \E f \in VisiblePaths : \E content \in ContentsOf(f) : WriteFile(f, content)
    \/ \E f \in VisiblePaths : RemoveFile(f)
    \/ Construct
    \/ init
    \/ \E f \in VisiblePaths : add(f)
    \/ \E message \in Messages : commit(message)
    \/ \E name \in BranchNames : branch(name)
    \/ \E target \in Targets : checkout(target)
    \/ status

\* the operations on the one visible path, and crashes in the middle of commit
NextCrash ==
    \/ NextVisible
    \/ \E message \in Messages, done \in 1..2 : commitInterrupted(message, done)

Spec == Init /\ [][Next]_vars

SpecCrash == Init /\ [][NextCrash]_vars

(***************************************************************************)
(* Properties of commit: ordering of its writes, the first commit.         *)
(***************************************************************************)
\* C1: whenever the run may be cut between two file writes, every commit
\* digest held by a file under refs/heads or by HEAD names a commit whose
\* record exists in commits (no dangling ref).
C1_NoDanglingRef ==
    /\ \A b \in DOMAIN refFiles : refFiles[b] \in DOMAIN commitDir
    /\ (/\ headFile # <<>>
        /\ ~StartsWith(headFile[1], RefPrefix)
        /\ headFile[1] # EmptyString) => headFile[1] \in DOMAIN commitDir

\* C2: init, add file.txt and commit, each in a front-end invocation of its
\* own, with file.txt in the working root, leave exactly one commit, whose
\* tree maps file.txt to the digest of its blob, whose parent list is empty
\* and whose digest is the content of refs/heads/master.
C2_FirstCommitAcrossInvocations ==
    (trace = FirstCommitScenario /\ objects # EmptyMap) =>
        /\ Cardinality(DOMAIN commitDir) = 1
        /\ \A h \in DOMAIN commitDir :
              LET c == loadCommitFromFile(commitDir, h)
              IN  /\ DOMAIN c.fileBlobs = {fileTxt}
                  /\ c.fileBlobs[fileTxt] \in DOMAIN objects
                  /\ c.parentHashes = <<>>
                  /\ master \in DOMAIN refFiles
                  /\ refFiles[master] = h

(***************************************************************************)
(* Properties of branch.                                                   *)
(***************************************************************************)
\* C3: a branch operation that creates the branch `name` leaves the file
\* refs/heads/<name> holding HEAD's commit digest.
C3_BranchRefWritten ==
    [][\A name \in BranchNames :
          (/\ last'.op = "branch" /\ last'.result = "ok"
           /\ name \notin DOMAIN branches /\ name \in DOMAIN branches')
          => (name \in DOMAIN refFiles' /\ refFiles'[name] = headCommitHash')]_vars

(***************************************************************************)
(* Properties of checkout.                                                 *)
(***************************************************************************)
\* C4: a checkout refused for uncommitted changes leaves HEAD (in the object
\* and in the HEAD file), every branch ref, every file of the working root
\* and the index as they were.
C4_RefusedCheckoutChangesNothing ==
    [][(last'.op = "checkout" /\ last'.result = "WorkingDirDirty")
       => UNCHANGED <<headBranch, headCommitHash, headFile, refFiles, branches,
                      wd, stagingArea>>]_vars

\* a checkout was refused with staged entries in the index, HEAD on a commit
C4_Witness ==
    /\ last.op = "checkout" /\ last.result = "WorkingDirDirty"
    /\ stagingArea # EmptyMap
    /\ headCommitHash # EmptyString
    /\ wd # EmptyMap

\* C5: after a commit that created a commit, and after a checkout that did
\* not fail, an attached HEAD has its ref file, holding the current commit
\* digest of the object.
C5_AttachedRefOnDisk ==
    (/\ \/ last.op = "commit" /\ last.result = "ok"
        \/ last.op = "checkout" /\ last.result \in {"ok", "AlreadyOn"}
     /\ headBranch # EmptyString)
    => (headBranch \in DOMAIN refFiles /\ refFiles[headBranch] = headCommitHash)

\* C6: after a commit that created a commit, and after a checkout that did
\* not fail (the target HEAD is already on included), the index is empty.
C6_IndexEmptyAfter ==
    (\/ last.op = "commit" /\ last.result = "ok"
     \/ last.op = "checkout" /\ last.result \in {"ok", "AlreadyOn"})
    => stagingArea = EmptyMap

\* C7 as stated: after a checkout that switched to a commit whose blobs are
\* all present, the non-hidden regular files of the working root are exactly
\* the paths of the commit's tree, each holding the bytes of its blob.
C7_WorkingRootIsTree ==
    (/\ last.op = "checkout" /\ last.result = "ok"
     /\ headCommitHash \in DOMAIN commitDir)
    => LET tree == loadCommitFromFile(commitDir, headCommitHash).fileBlobs
       IN  (\A f \in DOMAIN tree : tree[f] \in DOMAIN objects)
           => /\ WdFiles = DOMAIN tree
              /\ \A f \in WdFiles : wd[f] = objects[tree[f]]

\* C7: after a checkout that switched to a commit whose blobs are all
\* present, every path of the commit's tree is a file of the working root
\* holding the bytes of its blob, and the non-hidden regular files of the
\* working root are exactly the non-hidden paths of the tree.
C7_WorkingRootIsTreeButHidden ==
    (/\ last.op = "checkout" /\ last.result = "ok"
     /\ headCommitHash \in DOMAIN commitDir)
    => LET tree == loadCommitFromFile(commitDir, headCommitHash).fileBlobs
       IN  (\A f \in DOMAIN tree : tree[f] \in DOMAIN objects)
           => /\ WdFiles = {f \in DOMAIN tree : f[1] # "."}
              /\ \A f \in DOMAIN tree :
                    f \in DOMAIN wd /\ wd[f] = objects[tree[f]]

\* a checkout switched to a commit with a hidden and a non-hidden path, in a
\* repository that has another commit with another tree
C7_Witness ==
    /\ last.op = "checkout" /\ last.result = "ok"
    /\ headCommitHash \in DOMAIN commitDir
    /\ LET tree == loadCommitFromFile(commitDir, headCommitHash).fileBlobs
       IN  /\ DOMAIN tree = {fileTxt, hiddenTxt}
           /\ \E h \in DOMAIN commitDir :
                 loadCommitFromFile(commitDir, h).fileBlobs # tree

(***************************************************************************)
(* Properties of the commit that commit creates, and of the commit that    *)
(* creates none.  The commit HEAD pointed to before the call is read from  *)
(* its record in commits.                                                  *)
(***************************************************************************)
\* C8: the tree of a commit that commit creates is HEAD's tree (empty if
\* HEAD has no commit) with every entry of the index laid over it and every
\* staged-deleted path (in HEAD's tree, not in the index, not in the working
\* root) removed; no other path is added, changed or dropped.
C8_TreeIsHeadOverlaidWithIndex ==
    [][(last'.op = "commit" /\ last'.result = "ok")
       => LET headTree == IF headCommitHash = EmptyString THEN EmptyMap
                          ELSE loadCommitFromFile(commitDir, headCommitHash).fileBlobs
              deleted == {f \in DOMAIN headTree :
                             f \notin DOMAIN stagingArea /\ f \notin DOMAIN wd}
              kept == ((DOMAIN headTree) \cup (DOMAIN stagingArea)) \ deleted
          IN  /\ last'.created \in DOMAIN commitDir'
              /\ loadCommitFromFile(commitDir', last'.created).fileBlobs
                 = [f \in kept |-> IF f \in DOMAIN stagingArea
                                   THEN stagingArea[f] ELSE headTree[f]]]_vars

\* a commit was created on a parent, keeping one path of the parent's tree
\* as it was and differing from it on another
C8_Witness ==
    /\ last.op = "commit" /\ last.result = "ok"
    /\ last.created \in DOMAIN commitDir
    /\ LET c == loadCommitFromFile(commitDir, last.created)
       IN  /\ Len(c.parentHashes) = 1
           /\ c.parentHashes[1] \in DOMAIN commitDir
           /\ LET parentTree ==
                      loadCommitFromFile(commitDir, c.parentHashes[1]).fileBlobs
              IN  /\ \E f \in DOMAIN parentTree :
                        f \in DOMAIN c.fileBlobs /\ c.fileBlobs[f] = parentTree[f]
                  /\ \E f \in (DOMAIN parentTree) \cup (DOMAIN c.fileBlobs) :
                        \/ f \notin DOMAIN parentTree
                        \/ f \notin DOMAIN c.fileBlobs
                        \/ c.fileBlobs[f] # parentTree[f]

\* C9: the parent list of a commit that commit creates is the commit HEAD
\* pointed to before the call, alone, if HEAD had a commit, and empty
\* otherwise; after the call HEAD points to the new commit.
C9_ParentIsOldHead ==
    [][(last'.op = "commit" /\ last'.result = "ok")
       => /\ last'.created \in DOMAIN commitDir'
          /\ loadCommitFromFile(commitDir', last'.created).parentHashes
             = (IF headCommitHash # EmptyString THEN <<headCommitHash>> ELSE <<>>)
          /\ headCommitHash' = last'.created]_vars

\* a second commit was created, and its parent is the first
C9_Witness ==
    /\ last.op = "commit" /\ last.result = "ok"
    /\ headCommitHash = last.created
    /\ Cardinality(DOMAIN commitDir) = 2
    /\ \E p \in (DOMAIN commitDir) \ {last.created} :
          /\ loadCommitFromFile(commitDir, last.created).parentHashes = <<p>>
          /\ loadCommitFromFile(commitDir, p).parentHashes = <<>>

\* C10: a commit that finds no path of the index absent from HEAD's tree or
\* with another digest there, and no path of HEAD's tree absent from both
\* the index and the working root, creates no commit, leaves HEAD, the refs,
\* the commit store and the working root as they were, and clears the index.
C10_NothingStagedNothingCommitted ==
    [][LET headTree == IF headCommitHash = EmptyString THEN EmptyMap
                       ELSE loadCommitFromFile(commitDir, headCommitHash).fileBlobs
       IN  (/\ last'.op = "commit"
            /\ repo
            /\ \A f \in DOMAIN stagingArea :
                  f \in DOMAIN headTree /\ headTree[f] = stagingArea[f]
            /\ \A f \in DOMAIN headTree :
                  f \in DOMAIN stagingArea \/ f \in DOMAIN wd)
           => /\ last'.result = "NoEffectiveChanges"
              /\ UNCHANGED <<headBranch, headCommitHash, branches, headFile,
                             refFiles, commitDir, wd>>
              /\ stagingArea' = EmptyMap]_vars

\* a commit found only index entries equal to HEAD's tree, created nothing
\* and cleared the index
C10_Witness ==
    /\ last.op = "commit" /\ last.result = "NoEffectiveChanges"
    /\ headCommitHash \in DOMAIN commitDir
    /\ stagingArea = EmptyMap
    /\ ~idle

(***************************************************************************)
(* A repository found on disk at startup.  loadRepoState reads whatever    *)
(* .minigit holds: commit files named by any digests, one of them possibly *)
(* cut short by an interrupted writeCommitToFile, and any ref files.       *)
(***************************************************************************)
\* file names in .minigit/commits: two digests with the same first four
\* characters and one with other ones
digestA == <<"1", "2", "3", "4", "5">>
digestB == <<"1", "2", "3", "4", "6">>
digestC == <<"7", "7", "7", "7", "7">>
StoreDigests == {digestA, digestB, digestC}

\* the commit a file of the store was written for: A and C hold the file with
\* content x, B is the child of A and holds it with content y
StoredCommit(h) ==
    Commit(h, <<"m">>, getCurrentTime(0),
           IF h = digestB THEN <<digestA>> ELSE <<>>,
           Put(EmptyMap, fileTxt,
               hashFileContent(IF h = digestB THEN <<"y">> ELSE <<"x">>)))

\* the commit file of h, whole
StoredFile(h) == writeCommitToFile(StoredCommit(h), <<fileTxt>>)

\* what an interrupted writeCommitToFile may have left of a commit file: no
\* line, or the message line only
CutFiles(h) == {<<>>, SubSeq(StoredFile(h), 1, 1)}

\* The ref of master names `head`, as commit leaves it; the file of `head` is
\* whole or was cut short, the other files are whole; there may be a branch
\* whose name reads as digestA and which points to digestB.
InitStore ==
    \E stored \in {S \in SUBSET StoreDigests : Cardinality(S) >= 2} :
    \E head \in stored :
    \E headFile0 \in {StoredFile(head)} \cup CutFiles(head) :
    \E named \in {EmptyString} \cup (stored \cap {digestB}) :
        LET dir == [h \in stored |-> IF h = head THEN headFile0 ELSE StoredFile(h)]
            refs == IF named = EmptyString THEN Put(EmptyMap, master, head)
                    ELSE Put(Put(EmptyMap, master, head), digestA, named)
            blobs == [d \in {hashFileContent(c) : c \in Contents} |->
                         CHOOSE c \in Contents : hashFileContent(c) = d]
            tree == loadCommitFromFile(dir, head).fileBlobs
            m == Constructed(TRUE, SavedHead(master, head), refs, dir)
        IN  /\ repo = TRUE
            /\ wd = [f \in DOMAIN tree |-> blobs[tree[f]]]
            /\ objects = blobs
            /\ commitDir = dir
            /\ refFiles = refs
            /\ headFile = SavedHead(master, head)
            /\ commits = m.commits
            /\ branches = m.branches
            /\ stagingArea = EmptyMap
            /\ headBranch = m.headBranch
            /\ headCommitHash = m.headCommitHash
            /\ last = Ended("construct", "ok", EmptyString)
            /\ trace = OffScenario
            /\ interrupts = 0
            /\ idle = FALSE
            /\ logCall = NoLog
            /\ diffCall = NoDiff

SpecStore == InitStore /\ [][Next]_vars

(***************************************************************************)
(* Properties of the target resolution of checkout.                        *)
(***************************************************************************)
\* C11: a checkout that is not refused, of a target that is neither a branch
\* name nor a full commit digest, goes to the commit of which the target is
\* a prefix only if the target has at least four characters and is the
\* prefix of exactly one known commit digest; a target of fewer than four
\* characters, or the prefix of two or more known digests, ends in
\* UnknownTarget and changes nothing.
C11_PrefixOfExactlyOne ==
    [][\A target \in Targets :
          (/\ checkout(target)
           /\ last'.result \notin {"NotARepository", "WorkingDirDirty"}
           /\ target \notin DOMAIN branches
           /\ target \notin DOMAIN commits)
          => LET matches == {h \in DOMAIN commits : StartsWith(h, target)}
             IN  IF Len(target) >= 4 /\ Cardinality(matches) = 1
                 THEN /\ last'.result \in {"ok", "AlreadyOn", "CorruptCommit"}
                      /\ last'.result = "ok" => headCommitHash' \in matches
                 ELSE /\ last'.result = "UnknownTarget"
                      /\ UNCHANGED <<disk, branches, stagingArea, headBranch,
                                     headCommitHash>>]_vars

\* C12: a checkout that goes through (or finds HEAD already there) of a
\* target naming a known branch leaves HEAD attached to that branch at the
\* branch's commit, the HEAD file holding `ref: refs/heads/<branch>`, also
\* when the name reads as a commit digest; of any other target it leaves HEAD
\* detached at a known commit whose digest the target is or begins, at the
\* target itself if that is a known digest, the HEAD file holding the full
\* digest.
C12_BranchThenDigestThenPrefix ==
    [][\A target \in Targets :
          (checkout(target) /\ last'.result \in {"ok", "AlreadyOn"})
          => IF target \in DOMAIN branches
             THEN /\ headBranch' = target
                  /\ headCommitHash' = branches[target]
                  /\ headFile' = <<RefPrefix \o target>>
             ELSE /\ headBranch' = EmptyString
                  /\ headCommitHash' \in DOMAIN commits'
                  /\ StartsWith(headCommitHash', target)
                  /\ target \in DOMAIN commits => headCommitHash' = target
                  /\ headFile' = <<headCommitHash'>>]_vars

\* a checkout of a target that is both a branch name and a commit digest
\* went to the branch, whose commit is another one
C12_Witness ==
    /\ last.op = "checkout" /\ last.result = "ok"
    /\ headBranch \in DOMAIN commits
    /\ headCommitHash # headBranch
    /\ headFile = <<RefPrefix \o headBranch>>

\* C13: in a repository, a checkout ends in WorkingDirDirty whenever one of
\* the six change lists is non-empty: a path staged and not in HEAD's tree,
\* staged with another digest than in HEAD's tree, in HEAD's tree and
\* neither staged nor in the working root; a non-hidden file whose content
\* differs from its staged digest or, unstaged, from HEAD's tree; a path of
\* HEAD's tree that is no non-hidden file and is not staged; a non-hidden
\* file neither staged nor in HEAD's tree.  One untracked file is enough.
C13_AnyChangeRefusesCheckout ==
    [][(last'.op = "checkout" /\ repo)
       => LET tree == IF headCommitHash = EmptyString THEN EmptyMap
                      ELSE loadCommitFromFile(commitDir, headCommitHash).fileBlobs
              files == {f \in DOMAIN wd : f[1] # "."}
              stagedAdded == {f \in DOMAIN stagingArea : f \notin DOMAIN tree}
              stagedModified == {f \in (DOMAIN stagingArea) \cap (DOMAIN tree) :
                                    stagingArea[f] # tree[f]}
              stagedDeleted == {f \in DOMAIN tree :
                                   f \notin DOMAIN stagingArea /\ f \notin DOMAIN wd}
              modified == {f \in files :
                              IF f \in DOMAIN stagingArea
                              THEN stagingArea[f] # hashFileContent(wd[f])
                              ELSE f \in DOMAIN tree
                                   /\ tree[f] # hashFileContent(wd[f])}
              deleted == {f \in DOMAIN tree :
                             f \notin files /\ f \notin DOMAIN stagingArea}
              untracked == {f \in files :
                               f \notin DOMAIN stagingArea /\ f \notin DOMAIN tree}
          IN  (stagedAdded \cup stagedModified \cup stagedDeleted
               \cup modified \cup deleted \cup untracked) # {}
              => last'.result = "WorkingDirDirty"]_vars

\* a checkout was refused with nothing staged and every path of HEAD's tree
\* in place, for one untracked file alone
C13_Witness ==
    /\ last.op = "checkout" /\ last.result = "WorkingDirDirty"
    /\ stagingArea = EmptyMap
    /\ LET tree == IF headCommitHash = EmptyString THEN EmptyMap
                   ELSE loadCommitFromFile(commitDir, headCommitHash).fileBlobs
       IN  /\ \A f \in DOMAIN tree :
                 /\ f[1] # "." /\ f \in DOMAIN wd
                 /\ tree[f] = hashFileContent(wd[f])
           /\ Cardinality({f \in DOMAIN wd : f[1] # "." /\ f \notin DOMAIN tree}) = 1

(***************************************************************************)
(* Invariants of the stores.                                               *)
(***************************************************************************)
\* C14: while every operation runs to its end, every commit digest held by
\* a branch ref (the file and the entry of the object), by HEAD (the file
\* and the object) or by the parent list of a stored commit has its record
\* in the commit store.
C14_DigestsResolve ==
    /\ \A b \in DOMAIN refFiles : refFiles[b] \in DOMAIN commitDir
    /\ \A b \in DOMAIN branches :
          branches[b] # EmptyString => branches[b] \in DOMAIN commitDir
    /\ headCommitHash # EmptyString => headCommitHash \in DOMAIN commitDir
    /\ (headFile # <<>> /\ ~StartsWith(headFile[1], RefPrefix))
       => headFile[1] \in DOMAIN commitDir
    /\ \A h \in DOMAIN commitDir :
          LET parents == loadCommitFromFile(commitDir, h).parentHashes
          IN  \A i \in 1..Len(parents) : parents[i] \in DOMAIN commitDir

\* two commits are stored, one the parent of the other, a second branch was
\* made, and HEAD is detached
C14_Witness ==
    /\ Cardinality(DOMAIN commitDir) = 2
    /\ \E h \in DOMAIN commitDir :
          loadCommitFromFile(commitDir, h).parentHashes # <<>>
    /\ feature \in DOMAIN branches
    /\ refFiles # EmptyMap
    /\ headFile # <<>> /\ ~StartsWith(headFile[1], RefPrefix)

(***************************************************************************)
(* Failed writes: an std::ofstream that does not open.  saveBlob,          *)
(* saveHeadAndBranchRefs and writeCommitToFile print an error and return,  *)
(* and their callers go on.                                                *)
(***************************************************************************)
\* add, saveBlob failing to open the blob file
addBlobFailed(filename) ==
    /\ ~idle
    /\ UNCHANGED calls
    /\ repo
    /\ interrupts < MaxInterrupts
    /\ filename \in DOMAIN wd
    /\ LET hash == hashFileContent(wd[filename])
       IN  /\ ~(filename \in DOMAIN stagingArea /\ stagingArea[filename] = hash)
           /\ stagingArea' = Put(stagingArea, filename, hash)
    /\ last' = Ended("add", "ok", EmptyString)
    /\ interrupts' = interrupts + 1
    /\ trace' = Logged("add", filename)
    /\ UNCHANGED <<disk, commits, branches, headBranch, headCommitHash>>
    /\ Settled

\* the file writes of commit that fail when the write `failed` does: a ref
\* file that does not open makes saveHeadAndBranchRefs return before it
\* writes HEAD
FailedWrites == {"ref", "HEAD", "record"}

CommitWritesBut(c, order, failed) ==
    [refFiles |-> IF failed = "ref" THEN refFiles
                  ELSE SavedRefs(headBranch, c.hash, refFiles),
     headFile |-> IF failed = "HEAD" \/ (failed = "ref" /\ headBranch # EmptyString)
                  THEN headFile ELSE SavedHead(headBranch, c.hash),
     commitDir |-> IF failed = "record" THEN commitDir
                   ELSE Put(commitDir, c.hash, writeCommitToFile(c, order))]

\* commit, one of its file writes failing: the object is advanced, the
\* staging area cleared and "Committed as" printed all the same
commitPersistFailed(message, failed) ==
    /\ ~idle
    /\ UNCHANGED calls
    /\ repo
    /\ interrupts < MaxInterrupts
    /\ Cardinality(DOMAIN commitDir) + interrupts < MaxCommits
    /\ ~NoStaged(getStagedChanges(CurrentHeadCommit))
    /\ failed = "ref" => headBranch # EmptyString
    /\ \E t \in 0..MaxTime :
       \E order \in Orders(DOMAIN NewTree(getStagedChanges(CurrentHeadCommit))) :
          LET c == NewCommit(message, t, order)
              w == CommitWritesBut(c, order, failed)
          IN  /\ commits' = Put(HeadCached, c.hash, c)
              /\ headCommitHash' = c.hash
              /\ branches' = IF headBranch # EmptyString
                             THEN Put(branches, headBranch, c.hash)
                             ELSE branches
              /\ refFiles' = w.refFiles
              /\ headFile' = w.headFile
              /\ commitDir' = w.commitDir
              /\ stagingArea' = EmptyMap
              /\ last' = Ended("commit", "ok", c.hash)
              /\ interrupts' = interrupts + 1
              /\ trace' = Logged("commit", message)
              /\ UNCHANGED <<repo, wd, objects, headBranch>>
    /\ Settled

\* the operations on the one visible path, and one failed write
NextFault ==
    \/ NextVisible
    \/ \E f \in VisiblePaths : addBlobFailed(f)
    \/ \E message \in Messages, failed \in FailedWrites :
          commitPersistFailed(message, failed)

SpecFault == Init /\ [][NextFault]_vars

\* C15: every blob digest in the tree of a stored commit has a blob file in
\* the object store, also when a blob write by add fails: a path whose blob
\* could not be saved is neither staged nor committed.
C15_BlobsOfTreesStored ==
    /\ \A h \in DOMAIN commitDir :
          LET tree == loadCommitFromFile(commitDir, h).fileBlobs
          IN  \A f \in DOMAIN tree : tree[f] \in DOMAIN objects
    /\ \A f \in DOMAIN stagingArea : stagingArea[f] \in DOMAIN objects

\* C16: a commit one of whose file writes fails does not advance the
\* in-memory state past what it has persisted: the current commit digest
\* moves only to a commit whose record, branch ref and HEAD are on disk, and
\* the index is not cleared when no commit record was written.
C16_MemoryFollowsDisk ==
    [][last'.op = "commit" =>
         /\ headCommitHash' # headCommitHash =>
               /\ headCommitHash' \in DOMAIN commitDir'
               /\ headFile' = SavedHead(headBranch', headCommitHash')
               /\ headBranch' # EmptyString =>
                     /\ headBranch' \in DOMAIN refFiles'
                     /\ refFiles'[headBranch'] = headCommitHash'
         /\ (last'.result = "ok" /\ last'.created \notin DOMAIN commitDir') =>
               stagingArea' = stagingArea]_vars

\* C17: when the current commit digest names a commit whose record is missing
\* from the commit store, commit does not store a new commit whose parent is
\* that unresolvable digest.
C17_NoChildOfMissingCommit ==
    [][(/\ headCommitHash # EmptyString
        /\ headCommitHash \notin DOMAIN commitDir
        /\ last'.op = "commit")
       => \A h \in DOMAIN commitDir' \ DOMAIN commitDir :
             \A i \in DOMAIN loadCommitFromFile(commitDir', h).parentHashes :
                loadCommitFromFile(commitDir', h).parentHashes[i] # headCommitHash]_vars

\* C18: a partially written commit file is not loaded as a valid commit: a
\* commit the object holds under the name of a commit file, as a commit that
\* was read (its hash is set), is the commit that file is the whole record of.
C18_PartialRecordNotLoaded ==
    \A h \in DOMAIN commits \cap DOMAIN commitDir :
       commits[h].hash # EmptyString =>
          \E order \in Orders(DOMAIN commits[h].fileBlobs) :
             commitDir[h] = writeCommitToFile(commits[h], order)

\* C19: add is idempotent.  An add of a path that is there stages it with
\* the digest of its content and stores the blob; an add that follows an add,
\* of a path whose content is as it was staged (or of a path that is not
\* there, or outside a repository), leaves the index, the object store, HEAD,
\* the refs and the commit store as they were.
C19_AddIdempotent ==
    [][\A f \in Paths :
          LET Staged(index, files) ==
                  /\ f \in DOMAIN index
                  /\ index[f] = hashFileContent(files[f])
          IN  /\ (add(f) /\ repo /\ f \in DOMAIN wd) =>
                    /\ Staged(stagingArea', wd')
                    /\ stagingArea'[f] \in DOMAIN objects'
                    /\ objects'[stagingArea'[f]] = wd'[f]
              /\ (/\ add(f)
                  /\ last.op = "add"
                  /\ (repo /\ f \in DOMAIN wd) => Staged(stagingArea, wd))
                 => UNCHANGED <<stagingArea, objects, headFile, refFiles,
                                commitDir, commits, branches, headBranch,
                                headCommitHash>>]_vars

\* an add has been answered with "already up to date in staging"
C19_Witness ==
    /\ last.op = "add"
    /\ last.result = "AlreadyStaged"
    /\ \E f \in DOMAIN stagingArea :
          /\ f \in DOMAIN wd
          /\ stagingArea[f] = hashFileContent(wd[f])
          /\ stagingArea[f] \in DOMAIN objects

\* C20: the commit digest is a function of message, timestamp, parent list and
\* tree alone: the commit that commit would build receives the same digest in
\* whatever order the entries of its tree are iterated.
C20_DigestOfTreeNotOfOrder ==
    \A message \in Messages : \A t \in 0..MaxTime :
       \A order1, order2 \in Orders(DOMAIN NewTree(getStagedChanges(CurrentHeadCommit))) :
          NewCommit(message, t, order1).hash = NewCommit(message, t, order2).hash

(***************************************************************************)
(* File names with a ':' in them: regular files that add accepts.          *)
(***************************************************************************)
colonTxt == <<"f", ":", "g">>
NamedPaths == {colonTxt}

\* the operations, the files named being the one whose name has a ':'
NextNamed ==
    \/ \E f \in NamedPaths : \E content \in ContentsOf(f) : WriteFile(f, content)
    \/ \E f \in NamedPaths : RemoveFile(f)
    \/ Construct
    \/ init
    \/ \E f \in NamedPaths : add(f)
    \/ \E message \in Messages : commit(message)
    \/ \E name \in BranchNames : branch(name)
    \/ \E target \in Targets : checkout(target)
    \/ status

SpecNamed == Init /\ [][NextNamed]_vars

\* C21: commit round trip: loadCommitFromFile on the digest of a commit that
\* writeCommitToFile has written returns a record with the message, the
\* timestamp, the parent list and the tree of the commit the object holds,
\* names with a ':' in them included.
C21_CommitRoundTrip ==
    \A h \in DOMAIN commits \cap DOMAIN commitDir :
       commits[h].hash = h =>
          LET c == loadCommitFromFile(commitDir, h)
          IN  /\ c.message = commits[h].message
              /\ c.timestamp = commits[h].timestamp
              /\ c.parentHashes = commits[h].parentHashes
              /\ c.fileBlobs = commits[h].fileBlobs

(***************************************************************************)
(* log                                                                     *)
(***************************************************************************)
\* commits that one call of log may print
MaxWalk == 4

\* as LogContinues, but without the visited set
LogContinues_NoVisitedSet(call) == call.current # EmptyString

\* the condition of the while loop of log
LogContinues(call) ==
    /\ call.current # EmptyString
    /\ call.current \notin call.visitedCommits

\* log, up to its loop
log ==
    /\ ~idle
    /\ logCall.pc = "rest"
    /\ trace' = Logged("log", EmptyString)
    /\ UNCHANGED <<disk, memory, interrupts, diffCall>>
    /\ IF ~repo
       THEN /\ last' = Ended("log", "NotARepository", EmptyString)
            /\ UNCHANGED logCall
            /\ Settled
       ELSE IF headCommitHash = EmptyString
       THEN /\ last' = Ended("log", "NoCommits", EmptyString)
            /\ UNCHANGED logCall
            /\ Settled
       ELSE /\ logCall' = [pc |-> "loop", current |-> headCommitHash,
                           visitedCommits |-> {}, printed |-> <<>>]
            /\ UNCHANGED <<last, idle>>

\* log, one test of the condition of its loop and, when it holds, one run of
\* the body
logStep ==
    /\ logCall.pc = "loop"
    /\ UNCHANGED <<disk, stagingArea, headBranch, headCommitHash, interrupts,
                   diffCall, trace>>
    /\ IF ~LogContinues(logCall)
       THEN /\ logCall' = NoLog
            /\ last' = Ended("log", "ok", EmptyString)
            /\ UNCHANGED <<commits, branches>>
            /\ Settled
       ELSE LET current == logCall.current
                cache == IF current \in DOMAIN commits THEN commits
                         ELSE Put(commits, current,
                                  loadCommitFromFile(commitDir, current))
                c == cache[current]
            IN  /\ commits' = cache
                /\ IF current \notin DOMAIN commits /\ c.hash = EmptyString
                   THEN /\ logCall' = NoLog
                        /\ last' = Ended("log", "CorruptCommit", EmptyString)
                        /\ UNCHANGED branches
                        /\ Settled
                   ELSE /\ Len(logCall.printed) < MaxWalk
                        /\ branches' = IF headBranch # EmptyString
                                          /\ headBranch \notin DOMAIN branches
                                       THEN Put(branches, headBranch, EmptyString)
                                       ELSE branches
                        /\ logCall' =
                              [logCall EXCEPT
                                 !.visitedCommits = @ \cup {current},
                                 !.printed = Append(@, current),
                                 !.current = IF c.parentHashes = <<>>
                                             THEN EmptyString
                                             ELSE c.parentHashes[1]]
                        /\ UNCHANGED <<last, idle>>

\* Commit stores that log may find: commits named by any digests, with any
\* parent lists, the links of a cycle and links to commits without a record
\* included.
LogParents ==
    {<<>>} \cup {<<p>> : p \in StoreDigests}
    \cup {<<p, digestC>> : p \in StoreDigests}

InitLog ==
    \E stored \in SUBSET StoreDigests : \E head \in StoreDigests :
    \E parents \in [StoreDigests -> LogParents] :
       LET dir == [h \in stored |->
                      writeCommitToFile(
                          Commit(h, <<"m">>, getCurrentTime(0), parents[h], EmptyMap),
                          <<>>)]
           refs == Put(EmptyMap, master, head)
           m == Constructed(TRUE, SavedHead(master, head), refs, dir)
       IN  /\ repo = TRUE
           /\ wd = EmptyMap
           /\ objects = EmptyMap
           /\ commitDir = dir
           /\ refFiles = refs
           /\ headFile = SavedHead(master, head)
           /\ commits = m.commits
           /\ branches = m.branches
           /\ stagingArea = EmptyMap
           /\ headBranch = m.headBranch
           /\ headCommitHash = m.headCommitHash
           /\ last = Ended("construct", "ok", EmptyString)
           /\ trace = OffScenario
           /\ interrupts = 0
           /\ idle = FALSE
           /\ logCall = NoLog
           /\ diffCall = NoDiff

NextLog ==
    \/ log
    \/ logStep

\* log runs to its end: the process does nothing else
SpecLog == InitLog /\ [][NextLog]_vars /\ WF_vars(NextLog)

\* C22: log terminates on every commit store, a store whose parent links form
\* a cycle included; what it prints starts at HEAD and follows the first
\* parent, holds no commit twice and nothing after a commit whose record does
\* not load.
C22_LogVisitsOnceAndEnds ==
    /\ [](LET printed == logCall.printed
          IN  /\ \A i, j \in DOMAIN printed : i # j => printed[i] # printed[j]
              /\ \A i \in DOMAIN printed :
                    /\ i < Len(printed) => printed[i] \in DOMAIN commitDir
                    /\ printed[i] = IF i = 1 THEN headCommitHash
                                    ELSE loadCommitFromFile(commitDir, printed[i - 1])
                                            .parentHashes[1])
    /\ (logCall.pc = "loop") ~> (logCall.pc = "rest")

\* log has followed the first parents of two commits or more back to a commit
\* it has printed
C22_Witness ==
    /\ logCall.pc = "loop"
    /\ Len(logCall.printed) >= 2
    /\ logCall.current \in logCall.visitedCommits

\* C23: after init in a directory without .minigit, .minigit exists, the ref
\* file refs/heads/master exists and is empty, HEAD holds
\* `ref: refs/heads/master`, and HEAD is attached to master with no commit.
C23_InitWritesEmptyMasterRef ==
    (last.op = "init" /\ last.result = "ok") =>
        /\ repo
        /\ master \in DOMAIN refFiles
        /\ refFiles[master] = EmptyString
        /\ headFile = <<RefPrefix \o master>>
        /\ headBranch = master
        /\ headCommitHash = EmptyString

C25_IndexSurvivesExit ==
    [][(/\ last.op = "add"
        /\ last.result \in {"ok", "AlreadyStaged"}
        /\ last'.op = "construct")
       => stagingArea' = stagingArea]_vars

\* C26: branch <name> fails and changes nothing when HEAD has no commit
\* (NoCommits) or when <name> is a branch already (BranchExists): the branch
\* keeps its commit, and HEAD, the index and every ref file are as they were.
C26_BranchFailsUnchanged ==
    [][\A name \in BranchNames :
          (branch(name) /\ repo
              /\ (headCommitHash = EmptyString \/ name \in DOMAIN branches))
          => /\ last'.result = IF headCommitHash = EmptyString
                               THEN "NoCommits" ELSE "BranchExists"
             /\ UNCHANGED <<disk, memory>>]_vars

\* branch was refused for a name that is a branch at another commit than
\* HEAD's
C26_Witness ==
    /\ last.op = "branch"
    /\ last.result = "BranchExists"
    /\ \E b \in DOMAIN branches :
          b # headBranch /\ branches[b] # headCommitHash
                         /\ branches[b] \in DOMAIN commitDir

(***************************************************************************)
(* File names that run together in the string commit hashes: the entries   *)
(* `f` -> 229, `g` -> 230 and the one entry `f229g` -> 230 are both        *)
(* appended as f229g230.                                                   *)
(***************************************************************************)
gTxt == <<"g">>
joinedTxt == fileTxt \o hashFileContent(<<"x">>) \o gTxt
JoinedPaths == {fileTxt, gTxt, joinedTxt}
\* the bytes the user may write to file f
JoinedContentsOf(f) == IF f = fileTxt THEN {<<"x">>} ELSE {<<"y">>}

NextJoined ==
    \/ \E f \in JoinedPaths : \E content \in JoinedContentsOf(f) : WriteFile(f, content)
    \/ \E f \in JoinedPaths : RemoveFile(f)
    \/ Construct
    \/ init
    \/ \E f \in JoinedPaths : add(f)
    \/ \E message \in Messages : commit(message)
    \/ \E name \in BranchNames : branch(name)
    \/ \E target \in Targets : checkout(target)
    \/ status

\* The repository after `init`, `add g` and `commit m` in a working root that
\* holds g, as a later invocation finds it.
InitJoined ==
    LET blob == hashFileContent(<<"y">>)
        tree == Put(EmptyMap, gTxt, blob)
        timestamp == getCurrentTime(0)
        hash == CommitHash(<<"m">>, timestamp, <<>>, tree, <<gTxt>>)
        dir == Put(EmptyMap, hash,
                   writeCommitToFile(Commit(hash, <<"m">>, timestamp, <<>>, tree),
                                     <<gTxt>>))
        refs == SavedRefs(master, hash, EmptyMap)
        m == Constructed(TRUE, SavedHead(master, hash), refs, dir)
    IN  /\ repo = TRUE
        /\ wd = Put(EmptyMap, gTxt, <<"y">>)
        /\ objects = Put(EmptyMap, blob, <<"y">>)
        /\ commitDir = dir
        /\ refFiles = refs
        /\ headFile = SavedHead(master, hash)
        /\ commits = m.commits
        /\ branches = m.branches
        /\ stagingArea = EmptyMap
        /\ headBranch = m.headBranch
        /\ headCommitHash = m.headCommitHash
        /\ last = Ended("construct", "ok", EmptyString)
        /\ trace = OffScenario
        /\ interrupts = 0
        /\ idle = FALSE
        /\ logCall = NoLog
        /\ diffCall = NoDiff

SpecJoined == InitJoined /\ [][NextJoined]_vars

\* C27: commits are immutable: a commit record that is in the commit store
\* stays there, with its message, timestamp, parent list and tree.
C27_CommitsImmutable ==
    [][\A h \in DOMAIN commitDir :
          /\ h \in DOMAIN commitDir'
          /\ LET old == loadCommitFromFile(commitDir, h)
                 new == loadCommitFromFile(commitDir', h)
             IN  /\ new.message = old.message
                 /\ new.timestamp = old.timestamp
                 /\ new.parentHashes = old.parentHashes
                 /\ new.fileBlobs = old.fileBlobs]_vars

(***************************************************************************)
(* displayLineDiff                                                         *)
(***************************************************************************)
\* characters of the contents that displayLineDiff is given
MaxContent == 3
\* iterations of the loop of displayLineDiff that are followed
MaxIterations == 7

newline == "\n"
DiffContents ==
    UNION {[1..n -> {"x", "y", newline}] : n \in 0..MaxContent}

\* the lines that std::getline reads from a stream over s
RECURSIVE GetLines(_)
GetLines(s) ==
    IF s = <<>> THEN <<>>
    ELSE LET k == FindFrom(s, newline, 1)
         IN  IF k = 0 THEN <<s>>
             ELSE <<SubSeq(s, 1, k - 1)>> \o GetLines(Substr(s, k))

\* displayLineDiff, up to its loop
displayLineDiff(oldContent, newContent) ==
    /\ ~idle
    /\ diffCall.pc = "rest"
    /\ diffCall' = [pc |-> "loop",
                    oldLines |-> GetLines(oldContent),
                    newLines |-> GetLines(newContent),
                    oldIdx |-> 0, newIdx |-> 0, output |-> <<>>,
                    iterations |-> 0]
    /\ trace' = Logged("diff", EmptyString)
    /\ UNCHANGED <<disk, memory, last, interrupts, idle, logCall>>

\* displayLineDiff, one test of the condition of its loop and, when it holds,
\* one run of the body
displayLineDiffStep ==
    /\ diffCall.pc = "loop"
    /\ UNCHANGED <<disk, memory, interrupts, logCall, trace>>
    /\ LET oldLines == diffCall.oldLines
           newLines == diffCall.newLines
           oldIdx == diffCall.oldIdx
           newIdx == diffCall.newIdx
           oldLeft == oldIdx < Len(oldLines)
           newLeft == newIdx < Len(newLines)
           oldFoundInNew ==
               oldLeft /\ \E i \in newIdx..(Len(newLines) - 1) :
                             oldLines[oldIdx + 1] = newLines[i + 1]
           newFoundInOld ==
               newLeft /\ \E i \in oldIdx..(Len(oldLines) - 1) :
                             newLines[newIdx + 1] = oldLines[i + 1]
           deleted == <<<<"-", " ">> \o oldLines[oldIdx + 1]>>
           added == <<<<"+", " ">> \o newLines[newIdx + 1]>>
       IN  IF ~(oldLeft \/ newLeft)
           THEN /\ diffCall' = NoDiff
                /\ last' = Ended("diff", "ok", EmptyString)
                /\ Settled
           ELSE /\ diffCall.iterations < MaxIterations
                /\ UNCHANGED <<last, idle>>
                /\ IF oldLeft /\ newLeft /\ oldLines[oldIdx + 1] = newLines[newIdx + 1]
                   THEN diffCall' =
                           [diffCall EXCEPT
                              !.output = @ \o <<<<" ", " ">> \o oldLines[oldIdx + 1]>>,
                              !.oldIdx = @ + 1, !.newIdx = @ + 1,
                              !.iterations = @ + 1]
                   ELSE IF oldLeft /\ ~oldFoundInNew
                   THEN diffCall' =
                           [diffCall EXCEPT !.output = @ \o deleted,
                                            !.oldIdx = @ + 1,
                                            !.iterations = @ + 1]
                   ELSE IF newLeft /\ ~newFoundInOld
                   THEN diffCall' =
                           [diffCall EXCEPT !.output = @ \o added,
                                            !.newIdx = @ + 1,
                                            !.iterations = @ + 1]
                   ELSE LET del == oldLeft /\ ~newFoundInOld
                            ins == newLeft /\ ~oldFoundInNew
                        IN  diffCall' =
                               [diffCall EXCEPT
                                  !.output = @ \o (IF del THEN deleted ELSE <<>>)
                                               \o (IF ins THEN added ELSE <<>>),
                                  !.oldIdx = IF del THEN @ + 1 ELSE @,
                                  !.newIdx = IF ins THEN @ + 1 ELSE @,
                                  !.iterations = @ + 1]

NextDiff ==
    \/ \E oldContent, newContent \in DiffContents :
          displayLineDiff(oldContent, newContent)
    \/ displayLineDiffStep

SpecDiff == Init /\ [][NextDiff]_vars

\* C28: displayLineDiff terminates for every pair of inputs: every iteration
\* of its loop advances at least one of the two line indices.
C28_EveryIterationAdvances ==
    [][(diffCall.pc = "loop" /\ diffCall'.pc = "loop")
       => diffCall'.oldIdx + diffCall'.newIdx
             > diffCall.oldIdx + diffCall.newIdx]_vars

(***************************************************************************)
(* Classification of changes, against the tree of the commit record that   *)
(* HEAD names.                                                             *)
(***************************************************************************)
\* C29: staged classification: a path is staged-Added iff it is in the index
\* and not in HEAD's tree, staged-Modified iff it is in both with different
\* digests, staged-Deleted iff it is in HEAD's tree, not in the index and not
\* in the working directory; a path in both with equal digests is in none.
C29_StagedClassification ==
    LET tree == IF headCommitHash \in DOMAIN commitDir
                THEN loadCommitFromFile(commitDir, headCommitHash).fileBlobs
                ELSE EmptyMap
        staged == getStagedChanges(CurrentHeadCommit)
    IN  \A f \in Paths \cup DOMAIN tree \cup DOMAIN stagingArea :
           /\ f \in staged.added <=>
                 (f \in DOMAIN stagingArea /\ f \notin DOMAIN tree)
           /\ f \in staged.modified <=>
                 (/\ f \in DOMAIN stagingArea
                  /\ f \in DOMAIN tree
                  /\ tree[f] # stagingArea[f])
           /\ f \in staged.deleted <=>
                 (/\ f \in DOMAIN tree
                  /\ f \notin DOMAIN stagingArea
                  /\ f \notin DOMAIN wd)
           /\ (/\ f \in DOMAIN stagingArea
               /\ f \in DOMAIN tree
               /\ tree[f] = stagingArea[f])
              => f \notin staged.added \cup staged.modified \cup staged.deleted

\* status has run with a staged-Modified path, next to a path of HEAD's tree
\* that is not staged and is still in the working directory
C29_Witness ==
    /\ last.op = "status"
    /\ last.result = "ok"
    /\ getStagedChanges(CurrentHeadCommit).modified # {}
    /\ \E f \in DOMAIN TreeOf(CurrentHeadCommit) :
          f \notin DOMAIN stagingArea /\ f \in DOMAIN wd

\* C30: unstaged classification, the index taking precedence: a non-hidden
\* working file that is in the index is unstaged-Modified iff its digest
\* differs from the index digest; otherwise, if it is in HEAD's tree, iff its
\* digest differs from HEAD's; otherwise it is Untracked; a working file whose
\* name starts with '.' is never classified.
C30_UnstagedClassification ==
    LET tree == IF headCommitHash \in DOMAIN commitDir
                THEN loadCommitFromFile(commitDir, headCommitHash).fileBlobs
                ELSE EmptyMap
        unstaged == getUnstagedChanges(CurrentHeadCommit)
        Modified(f) == f \in unstaged.modified
                       \/ (f \o NotStagedNote) \in unstaged.modified
        Untracked(f) == f \in unstaged.untracked
        Classified(f) == Modified(f) \/ Untracked(f) \/ f \in unstaged.deleted
    IN  \A f \in DOMAIN wd :
           IF f[1] = "."
           THEN ~Classified(f)
           ELSE IF f \in DOMAIN stagingArea
           THEN /\ Modified(f) <=> stagingArea[f] # hashFileContent(wd[f])
                /\ ~Untracked(f)
           ELSE IF f \in DOMAIN tree
           THEN /\ Modified(f) <=> tree[f] # hashFileContent(wd[f])
                /\ ~Untracked(f)
           ELSE Untracked(f) /\ ~Modified(f)

(***************************************************************************)
(* Deletions.  No operation stages a deletion: commit takes a path of      *)
(* HEAD's tree that is neither in the index nor in the working root as     *)
(* deleted.                                                                *)
(***************************************************************************)
\* C31: with an empty index, commit creates a commit iff at least one path of
\* HEAD's tree is not in the working directory, and the tree of the commit it
\* creates is HEAD's tree without exactly the missing paths.
C31_DeletionByAbsence ==
    [][LET headTree == IF headCommitHash = EmptyString THEN EmptyMap
                       ELSE loadCommitFromFile(commitDir, headCommitHash).fileBlobs
           missing == {f \in DOMAIN headTree : f \notin DOMAIN wd}
       IN  (last'.op = "commit" /\ repo /\ stagingArea = EmptyMap)
           => /\ last'.result = "ok" <=> missing # {}
              /\ last'.result = "ok"
                 => /\ last'.created \in DOMAIN commitDir'
                    /\ loadCommitFromFile(commitDir', last'.created).fileBlobs
                       = [f \in (DOMAIN headTree) \ missing |-> headTree[f]]]_vars

\* a commit was created whose tree is its parent's tree without a path that
\* is not in the working root, a path of the parent's tree being kept
C31_Witness ==
    /\ last.op = "commit" /\ last.result = "ok"
    /\ last.created \in DOMAIN commitDir
    /\ LET c == loadCommitFromFile(commitDir, last.created)
       IN  /\ Len(c.parentHashes) = 1
           /\ c.parentHashes[1] \in DOMAIN commitDir
           /\ LET parentTree ==
                      loadCommitFromFile(commitDir, c.parentHashes[1]).fileBlobs
              IN  /\ c.fileBlobs # EmptyMap
                  /\ DOMAIN c.fileBlobs # DOMAIN parentTree
                  /\ \A f \in DOMAIN c.fileBlobs :
                        f \in DOMAIN parentTree /\ parentTree[f] = c.fileBlobs[f]
                  /\ \A f \in (DOMAIN parentTree) \ (DOMAIN c.fileBlobs) :
                        f \notin DOMAIN wd

(***************************************************************************)
(* A tree entry without its blob.  saveBlob prints an error and returns    *)
(* when the blob file does not open, and add has staged the digest by      *)
(* then: the commit that follows records a path whose blob is not in the   *)
(* object store.                                                           *)
(***************************************************************************)
kTxt == <<"k">>
\* the files the user edits and adds; f, whose blob is missing, is left as
\* it is
BloblessPaths == {gTxt, kTxt}

NextBlobless ==
    \/ \E f \in BloblessPaths : \E content \in JoinedContentsOf(f) : WriteFile(f, content)
    \/ \E f \in BloblessPaths : RemoveFile(f)
    \/ Construct
    \/ init
    \/ \E f \in BloblessPaths : add(f)
    \/ \E message \in Messages : commit(message)
    \/ \E name \in BranchNames : branch(name)
    \/ \E target \in Targets : checkout(target)
    \/ status

\* The repository after `init`, `add f` (the blob file of f did not open),
\* `add g` and `commit m` in a working root that holds f and g, as a later
\* invocation finds it.
InitBlobless ==
    LET blobF == hashFileContent(<<"x">>)
        blobG == hashFileContent(<<"y">>)
        tree == Put(Put(EmptyMap, fileTxt, blobF), gTxt, blobG)
        timestamp == getCurrentTime(0)
    IN  \E order \in Orders({fileTxt, gTxt}) :
           LET hash == CommitHash(<<"m">>, timestamp, <<>>, tree, order)
               dir == Put(EmptyMap, hash,
                          writeCommitToFile(
                              Commit(hash, <<"m">>, timestamp, <<>>, tree), order))
               refs == SavedRefs(master, hash, EmptyMap)
               m == Constructed(TRUE, SavedHead(master, hash), refs, dir)
           IN  /\ repo = TRUE
               /\ wd = Put(Put(EmptyMap, fileTxt, <<"x">>), gTxt, <<"y">>)
               /\ objects = Put(EmptyMap, blobG, <<"y">>)
               /\ commitDir = dir
               /\ refFiles = refs
               /\ headFile = SavedHead(master, hash)
               /\ commits = m.commits
               /\ branches = m.branches
               /\ stagingArea = EmptyMap
               /\ headBranch = m.headBranch
               /\ headCommitHash = m.headCommitHash
               /\ last = Ended("construct", "ok", EmptyString)
               /\ trace = OffScenario
               /\ interrupts = 0
               /\ idle = FALSE
               /\ logCall = NoLog
               /\ diffCall = NoDiff

SpecBlobless == InitBlobless /\ [][NextBlobless]_vars

\* C32: a checkout that materializes a tree one of whose blobs is not in the
\* object store does not abort: every other path of the tree is written with
\* the bytes of its blob, every file of the working directory that is not in
\* the tree is deleted, and HEAD moves to the target.
C32_MissingBlobSkipsOnePath ==
    [][\A target \in (DOMAIN branches) \cup (DOMAIN commitDir) :
          LET attach == target \in DOMAIN branches
              h == IF attach THEN branches[target] ELSE target
              tree == loadCommitFromFile(commitDir, h).fileBlobs
          IN  (/\ checkout(target)
               /\ last'.result = "ok"
               /\ h \in DOMAIN commitDir
               /\ \E f \in DOMAIN tree : tree[f] \notin DOMAIN objects)
              => /\ \A f \in DOMAIN tree :
                       tree[f] \in DOMAIN objects
                       => f \in DOMAIN wd' /\ wd'[f] = objects[tree[f]]
                 /\ \A f \in WdFiles : f \notin DOMAIN tree => f \notin DOMAIN wd'
                 /\ headCommitHash' = h
                 /\ headBranch' = (IF attach THEN target ELSE EmptyString)
                 /\ headFile' = <<IF attach THEN RefPrefix \o target ELSE h>>]_vars

\* a checkout switched to a commit with a path whose blob is missing: another
\* path of its tree, absent before in a repository whose other commit has no
\* such path, holds the bytes of its blob, and a path of the other commit
\* that the tree lacks is gone from the working root
C32_Witness ==
    /\ last.op = "checkout" /\ last.result = "ok"
    /\ headCommitHash \in DOMAIN commitDir
    /\ LET tree == loadCommitFromFile(commitDir, headCommitHash).fileBlobs
       IN  /\ \E f \in DOMAIN tree : tree[f] \notin DOMAIN objects
           /\ \E h \in DOMAIN commitDir :
                 LET other == loadCommitFromFile(commitDir, h).fileBlobs
                 IN  /\ \E f \in (DOMAIN tree) \ (DOMAIN other) :
                           /\ tree[f] \in DOMAIN objects
                           /\ f \in DOMAIN wd /\ wd[f] = objects[tree[f]]
                     /\ \E f \in (DOMAIN other) \ (DOMAIN tree) :
                           f \notin DOMAIN wd

(***************************************************************************)
(* Checkout of a commit whose record is not in the commit store.           *)
(***************************************************************************)
\* C33: a checkout that is not refused as dirty and whose target resolves to
\* a commit digest without a loadable commit record ends with CorruptCommit
\* and leaves HEAD (in the object and in the HEAD file), every ref, the
\* working directory and the index unchanged, also when that digest is the
\* commit HEAD points to through a branch.
C33_UnloadableTargetAborts ==
    [][\A target \in (DOMAIN branches) \cup ({headCommitHash} \ {EmptyString}) :
          LET h == IF target \in DOMAIN branches THEN branches[target] ELSE target
          IN  (/\ checkout(target)
               /\ repo
               /\ last'.result # "WorkingDirDirty"
               /\ h # EmptyString
               /\ h \notin DOMAIN commitDir)
              => /\ last'.result = "CorruptCommit"
                 /\ UNCHANGED <<headBranch, headCommitHash, headFile, refFiles,
                                branches, wd, stagingArea>>]_vars

(***************************************************************************)
(* The refs that an operation leaves alone.                                *)
(***************************************************************************)
\* C34: checkout repoints only HEAD: whatever its outcome, every branch is
\* bound to the digest it was bound to before, in the object and in the ref
\* files; a ref file that checkout writes anew holds the digest its branch
\* was bound to.
C34_CheckoutKeepsEveryRef ==
    [][(last'.op = "checkout")
       => /\ branches' = branches
          /\ \A b \in DOMAIN refFiles :
                b \in DOMAIN refFiles' /\ refFiles'[b] = refFiles[b]
          /\ \A b \in (DOMAIN refFiles') \ (DOMAIN refFiles) :
                b \in DOMAIN branches /\ refFiles'[b] = branches[b]]_vars

\* a checkout switched HEAD to a branch while another branch points to
\* another commit
C34_Witness ==
    /\ last.op = "checkout" /\ last.result = "ok"
    /\ headBranch \in DOMAIN refFiles
    /\ refFiles[headBranch] = headCommitHash
    /\ \E b \in (DOMAIN refFiles) \ {headBranch} :
          /\ refFiles[b] # headCommitHash
          /\ refFiles[b] \in DOMAIN commitDir

\* C35: commit advances at most one branch ref.  A commit that creates a
\* commit with HEAD attached binds the current branch to the new commit, in
\* the object and in its ref file, and leaves every other branch as it was;
\* with HEAD detached it changes no branch and no ref file, and rewrites the
\* HEAD file with the digest of the new commit.  A commit that creates no
\* commit changes no ref and not the HEAD file.
C35_CommitAdvancesOneRef ==
    [][(last'.op = "commit")
       => IF last'.result = "ok"
          THEN /\ headBranch' = headBranch
               /\ headCommitHash' = last'.created
               /\ IF headBranch # EmptyString
                  THEN /\ branches' = Put(branches, headBranch, last'.created)
                       /\ refFiles' = Put(refFiles, headBranch, last'.created)
                       /\ headFile' = <<RefPrefix \o headBranch>>
                  ELSE /\ branches' = branches
                       /\ refFiles' = refFiles
                       /\ headFile' = <<last'.created>>
          ELSE UNCHANGED <<branches, refFiles, headFile, headBranch,
                           headCommitHash>>]_vars

\* a commit was created with HEAD detached, in a repository with a branch
\* that points to its parent
C35_Witness ==
    /\ last.op = "commit" /\ last.result = "ok"
    /\ headBranch = EmptyString
    /\ headFile = <<last.created>>
    /\ last.created \in DOMAIN commitDir
    /\ \E b \in DOMAIN refFiles :
          loadCommitFromFile(commitDir, last.created).parentHashes = <<refFiles[b]>>

(***************************************************************************)
(* The working root that checkout leaves, as the classifier sees it.       *)
(***************************************************************************)
\* C36: right after a checkout that switched to a commit whose blobs are all
\* present, the classifier computed against the new HEAD reports no staged
\* and no unstaged change and no untracked path: a second checkout would not
\* be refused as dirty.
C36_CleanAfterCheckout ==
    (/\ last.op = "checkout" /\ last.result = "ok"
     /\ headCommitHash \in DOMAIN commitDir
     /\ LET tree == loadCommitFromFile(commitDir, headCommitHash).fileBlobs
        IN  \A f \in DOMAIN tree : tree[f] \in DOMAIN objects)
    => /\ NoStaged(getStagedChanges(CurrentHeadCommit))
       /\ NoUnstaged(getUnstagedChanges(CurrentHeadCommit))

(***************************************************************************)
(* The two groups of one status computation.                               *)
(***************************************************************************)
\* C37: the staged and the unstaged group are not disjoint for deletions:
\* every non-hidden path that is in HEAD's tree, not in the index and not in
\* the working root is reported as staged-Deleted and, by the same
\* computation, as unstaged-Deleted.
C37_DeletedInBothGroups ==
    LET tree == IF headCommitHash \in DOMAIN commitDir
                THEN loadCommitFromFile(commitDir, headCommitHash).fileBlobs
                ELSE EmptyMap
        staged == getStagedChanges(CurrentHeadCommit)
        unstaged == getUnstagedChanges(CurrentHeadCommit)
    IN  /\ \A f \in DOMAIN tree :
              (f[1] # "." /\ f \notin DOMAIN stagingArea /\ f \notin DOMAIN wd)
              => f \in staged.deleted /\ f \in unstaged.deleted
        /\ \A f \in staged.deleted : f[1] # "." => f \in unstaged.deleted

\* status has run with a non-hidden path of HEAD's tree removed from the
\* working root and not staged
C37_Witness ==
    /\ last.op = "status" /\ last.result = "ok"
    /\ \E f \in getStagedChanges(CurrentHeadCommit).deleted :
          /\ f[1] # "."
          /\ f \in DOMAIN loadCommitFromFile(commitDir, headCommitHash).fileBlobs
          /\ f \notin DOMAIN wd

(***************************************************************************)
(* Branches without a commit.                                              *)
(***************************************************************************)
\* C38: every branch other than the one HEAD is attached to points to a
\* non-empty commit digest, in the object and in the ref files, and no
\* checkout takes the empty-branch path: a checkout that switches HEAD
\* switches it to a commit.
C38_OtherBranchesHaveCommits ==
    /\ [](/\ \A b \in DOMAIN branches :
                b # headBranch => branches[b] # EmptyString
          /\ \A b \in DOMAIN refFiles :
                b # headBranch => refFiles[b] # EmptyString)
    /\ [][(last'.op = "checkout" /\ last'.result = "ok")
          => headCommitHash' # EmptyString]_vars

\* a checkout has attached HEAD to feature, master being a branch too
C38_Witness ==
    /\ last.op = "checkout" /\ last.result = "ok"
    /\ headBranch = feature
    /\ master \in DOMAIN branches
    /\ feature \in DOMAIN branches

(***************************************************************************)
(* Hidden files that are tracked.                                          *)
(***************************************************************************)
\* C39: add stages a file whose name starts with '.', so that a tree can
\* hold a hidden path; a checkout that switches HEAD writes the hidden paths
\* of the target tree, and a hidden file of the working root that is in the
\* tree of the commit HEAD pointed to and not in the target tree is still
\* there afterwards, with the content it had.
C39_HiddenWrittenNeverDeleted ==
    /\ [][(add(hiddenTxt) /\ repo /\ hiddenTxt \in DOMAIN wd)
          => /\ hiddenTxt \in DOMAIN stagingArea'
             /\ stagingArea'[hiddenTxt] = hashFileContent(wd[hiddenTxt])]_vars
    /\ [][(last'.op = "checkout" /\ last'.result = "ok")
          => LET TreeAt(dir, h) ==
                     IF h \in DOMAIN dir
                     THEN loadCommitFromFile(dir, h).fileBlobs ELSE EmptyMap
                 old == TreeAt(commitDir, headCommitHash)
                 new == TreeAt(commitDir', headCommitHash')
             IN  /\ \A f \in DOMAIN new :
                       (f[1] = "." /\ new[f] \in DOMAIN objects)
                       => f \in DOMAIN wd' /\ wd'[f] = objects[new[f]]
                 /\ \A f \in DOMAIN old :
                       (f[1] = "." /\ f \in DOMAIN wd /\ f \notin DOMAIN new)
                       => f \in DOMAIN wd' /\ wd'[f] = wd[f]]_vars

\* a checkout switched to a commit without the hidden path, from its child,
\* which tracks the hidden path: the hidden file is in the working root with
\* the content the child tracks
C39_Witness ==
    /\ last.op = "checkout" /\ last.result = "ok"
    /\ headCommitHash \in DOMAIN commitDir
    /\ hiddenTxt \notin DOMAIN loadCommitFromFile(commitDir, headCommitHash).fileBlobs
    /\ hiddenTxt \in DOMAIN wd
    /\ \E h \in DOMAIN commitDir :
          LET child == loadCommitFromFile(commitDir, h)
          IN  /\ child.parentHashes = <<headCommitHash>>
              /\ hiddenTxt \in DOMAIN child.fileBlobs
              /\ child.fileBlobs[hiddenTxt] = hashFileContent(wd[hiddenTxt])
              /\ \E b \in DOMAIN refFiles : refFiles[b] = h

(***************************************************************************)
(* diff                                                                    *)
(***************************************************************************)
stagedFlag == <<"-", "-", "s", "t", "a", "g", "e", "d">>
cachedFlag == <<"-", "-", "c", "a", "c", "h", "e", "d">>

\* loadBlob: the bytes of the blob file, the empty string when it does not
\* open
loadBlob(hash) == IF hash \in DOMAIN objects THEN objects[hash] ELSE EmptyString

\* the lambda resolveHash of diff: a 40-character argument is taken as it is,
\* any other resolves to the first digest met in commits of which it is a
\* prefix of four characters or more, or to the empty string
resolveHash(hash, cache) ==
    IF Len(hash) = 40 THEN {hash}
    ELSE LET matches == {h \in DOMAIN cache :
                            StartsWith(h, hash) /\ Len(hash) >= 4}
         IN  IF matches = {} THEN {EmptyString} ELSE matches

\* foundDiff of the two loops over the files of two snapshots: a path of
\* both that is among `differing`, the paths whose contents differ, or a
\* path of one only
SnapshotsDiffer(old, new, differing) ==
    \E f \in (DOMAIN old) \cup (DOMAIN new) :
       IF f \in DOMAIN old /\ f \in DOMAIN new THEN f \in differing ELSE TRUE

\* what the user may pass to diff: nothing, a flag, a commit digest, or the
\* first four or the first three characters of one
DiffArgs ==
    {EmptyString, stagedFlag, cachedFlag} \cup (DOMAIN commits)
    \cup ({headCommitHash} \ {EmptyString})
    \cup {SubSeq(h, 1, 4) : h \in {d \in DOMAIN commits : Len(d) >= 4}}
    \cup {SubSeq(h, 1, 3) : h \in {d \in DOMAIN commits : Len(d) >= 4}}

\* diff(arg1, arg2): the four comparisons; each pair of contents that differ
\* is handed to displayLineDiff, which writes to the terminal only
diff(arg1, arg2) ==
    /\ ~idle
    /\ UNCHANGED calls
    /\ trace' = Logged("diff", arg1)
    /\ UNCHANGED interrupts
    /\ IF ~repo
       THEN /\ last' = Ended("diff", "NotARepository", EmptyString)
            /\ UNCHANGED <<disk, memory>>
       ELSE IF arg1 = EmptyString /\ arg2 = EmptyString
       THEN LET foundDiff ==
                    \/ \E f \in WdFiles :
                          /\ f \in DOMAIN stagingArea
                          /\ wd[f] # loadBlob(stagingArea[f])
                    \/ \E f \in DOMAIN stagingArea : f \notin DOMAIN wd
            IN  /\ last' = Ended("diff", IF foundDiff THEN "ok" ELSE "NoDifferences",
                                 EmptyString)
                /\ UNCHANGED <<disk, memory>>
       ELSE IF arg1 \in {stagedFlag, cachedFlag}
       THEN IF headCommitHash = EmptyString
            THEN /\ last' = Ended("diff", "NoCommits", EmptyString)
                 /\ UNCHANGED <<disk, memory>>
            ELSE LET tree == HeadCached[headCommitHash].fileBlobs
                     foundDiff ==
                         SnapshotsDiffer(tree, stagingArea,
                             {f \in (DOMAIN tree) \cap (DOMAIN stagingArea) :
                                 loadBlob(stagingArea[f]) # loadBlob(tree[f])})
                 IN  /\ commits' = HeadCached
                     /\ last' = Ended("diff",
                                      IF foundDiff THEN "ok" ELSE "NoDifferences",
                                      EmptyString)
                     /\ UNCHANGED <<disk, branches, stagingArea, headBranch,
                                    headCommitHash>>
       ELSE IF arg1 # EmptyString /\ arg2 # EmptyString
       THEN \E commit1Hash \in resolveHash(arg1, commits) :
            \E commit2Hash \in resolveHash(arg2, commits) :
               LET Unknown(h) == \/ h = EmptyString
                                 \/ h \notin DOMAIN commits
                                 \/ commits[h].hash = EmptyString
               IN  /\ UNCHANGED <<disk, memory>>
                   /\ IF Unknown(commit1Hash) \/ Unknown(commit2Hash)
                      THEN last' = Ended("diff", "UnknownTarget", EmptyString)
                      ELSE LET t1 == commits[commit1Hash].fileBlobs
                               t2 == commits[commit2Hash].fileBlobs
                               foundDiff ==
                                   SnapshotsDiffer(t1, t2,
                                       {f \in (DOMAIN t1) \cap (DOMAIN t2) :
                                           t1[f] # t2[f]})
                           IN  last' = Ended("diff",
                                            IF foundDiff THEN "ok"
                                            ELSE "NoDifferences", EmptyString)
       ELSE IF arg1 # EmptyString
       THEN \E targetCommitHash \in resolveHash(arg1, commits) :
               /\ UNCHANGED <<disk, memory>>
               /\ IF \/ targetCommitHash = EmptyString
                     \/ targetCommitHash \notin DOMAIN commits
                     \/ commits[targetCommitHash].hash = EmptyString
                  THEN last' = Ended("diff", "UnknownTarget", EmptyString)
                  ELSE LET tree == commits[targetCommitHash].fileBlobs
                           allFiles == WdFiles \cup DOMAIN tree
                           foundDiff ==
                               \E f \in allFiles :
                                  IF f \in DOMAIN wd /\ f \in DOMAIN tree
                                  THEN wd[f] # loadBlob(tree[f])
                                  ELSE TRUE
                       IN  last' = Ended("diff",
                                        IF foundDiff THEN "ok" ELSE "NoDifferences",
                                        EmptyString)
       ELSE /\ last' = Ended("diff", "Usage", EmptyString)
            /\ UNCHANGED <<disk, memory>>
    /\ Settled

\* The operations on the one visible path and the three that only report:
\* status, log and diff.  The process runs one operation at a time: nothing
\* else runs while log is in its loop.
NextReading ==
    \/ logCall.pc = "rest" /\ NextVisible
    \/ logCall.pc = "rest" /\ \E arg1 \in DiffArgs :
                                 \E arg2 \in {EmptyString} \cup DOMAIN commits :
                                    diff(arg1, arg2)
    \/ log
    \/ logStep

SpecReading == Init /\ [][NextReading]_vars

\* C40: status, log and diff are read-only: each of their steps leaves the
\* index, the HEAD and the branch map of the object, the HEAD file, every
\* ref file, the object store, the commit files and the working directory
\* unchanged.
C40_ReportsAreReadOnly ==
    [][(\/ status
        \/ log
        \/ logStep
        \/ \E arg1 \in DiffArgs : \E arg2 \in {EmptyString} \cup DOMAIN commits :
              diff(arg1, arg2))
       => UNCHANGED <<stagingArea, headBranch, headCommitHash, branches,
                      headFile, refFiles, objects, commitDir, wd, repo>>]_vars

\* log has printed a history of two commits and ended, with entries in the
\* index and a file in the working root
C40_Witness ==
    /\ last.op = "log" /\ last.result = "ok"
    /\ logCall.pc = "rest"
    /\ Cardinality(DOMAIN commitDir) = 2
    /\ \E h \in DOMAIN commitDir :
          loadCommitFromFile(commitDir, headCommitHash).parentHashes = <<h>>
    /\ stagingArea # EmptyMap
    /\ wd # EmptyMap

====
